---- MODULE Spec2Model ----
(***************************************************************************)
(* input_monitor: the debounce channel (src/src/debounce.rs), the manually *)
(* reference-counted COM handlers and their event filters                  *)
(* (src/src/uia/handlers.rs) and the text retrieval (src/src/uia/text.rs). *)
(*                                                                         *)
(* Time is measured in milliseconds.  A step of a thread or of the worker  *)
(* takes no time; time passes (Advance) only when no thread is inside      *)
(* debounce_print and the worker is blocked in recv or in a recv_timeout   *)
(* whose deadline lies ahead.                                              *)
(***************************************************************************)
EXTENDS Integers, Sequences, FiniteSets

\* debounce.rs:6
DEBOUNCE_MS == 200

\* The number of debounce_print calls a behaviour makes.
MaxSubs == 3

\* The threads that call into the core (host callback threads).
Threads == {"t1", "t2"}

\* The instants at which a caller may enter debounce_print.
SubmitTimes == {0, 50, 200, 250, 260}

\* Channel identities: the n-th channel created by mpsc::channel() is n.
Chans == 1..Cardinality(Threads)

\* The payload of the k-th call of debounce_print.
Letters == <<"A", "B", "C", "D", "E", "F">>

\* A string is known by where it came from and by its length in characters;
\* the empty string is the same wherever it came from.
Empty == [src |-> "", len |-> 0]
Str(src, n) == IF n = 0 THEN Empty ELSE [src |-> src, len |-> n]
IsEmpty(s) == s.len = 0

\* A DebounceEvent: `text` is the fixed part of the message, `ctype`, `name`
\* and `body` are what the handlers format into it; `id` tells two events with
\* the same message apart (history).
Msg(id, text, ctype, name, body) ==
    [id |-> id, text |-> text, ctype |-> ctype, name |-> name, body |-> body]

NoMsg == Msg(0, "", "", Empty, Empty)

VARIABLES
    now,        \* the clock, in ms
    once,       \* DEBOUNCE_SENDER: "incomplete", "running" or "complete"
    cell,       \* the channel whose Sender DEBOUNCE_SENDER holds (0: none)
    nChan,      \* channels created so far
    senders,    \* senders[c]: live Sender handles of channel c
    queue,      \* queue[c]: messages in flight on channel c
    wpc,        \* wpc[c]: the worker of channel c: "none", "recv", "recv_timeout", "done"
    wlast,      \* wlast[c]: the worker's `last`
    deadline,   \* deadline[c]: when the running recv_timeout expires
    tpc,        \* tpc[t]: where thread t is inside debounce_print
    tmsg,       \* tmsg[t]: the message thread t is submitting
    tsender,    \* tsender[t]: the channel of the `sender` thread t obtained
    nextId,     \* identity of the next DebounceEvent (history)
    subs,       \* the sends made so far (history)
    stdout,     \* the lines printed so far
    variant,    \* the handler object under the host's calls
    ref_count,  \* its ref_count field
    alive,      \* its Box is still allocated
    owned,      \* owned[t]: counted references thread t holds (history)
    rpc,        \* rpc[t]: "idle", or "release" between fetch_sub and the test
    rcount,     \* rcount[t]: the local `count` of thread t's release
    rseen,      \* rseen[t]: ref_count before and after t's fetch_sub (history)
    destroyCount, \* how often the Box was dropped (history)
    zeroedBy,   \* the threads whose release gave up the last reference (history)
    destroyedBy, \* the threads whose release dropped the Box (history)
    uaf,        \* a call touched the object after its Box was dropped (history)
    lastCall,   \* the last call that returned, with its arguments and results
    tlAuto,     \* tlAuto[t]: TL_AUTOMATION of thread t (0: None, else the handle)
    nAuto,      \* IUIAutomation handles created by with_thread_automation
    hstate,     \* the behaviour call: "none", "running", "returned"
    hev,        \* the event the host raised, with the element it fired on
    hres,       \* what the behaviour method did
    apc,        \* run(): the call it is at
    aret,       \* run(): what it returned ("" until it does)
    running,    \* run(): the value of the local AtomicU32 `running`
    acalls,     \* run(): the host calls it made, with their results (history)
    hrefs,      \* hrefs[v]: ref_count of the handler v that run() created
    hostHolds,  \* hostHolds[v]: counted references the host holds on v
    hdrops      \* hdrops[v]: how often the Box of v was dropped (history)

dvars == <<now, once, cell, nChan, senders, queue, wpc, wlast, deadline,
           tpc, tmsg, tsender, nextId, subs, stdout>>

rvars == <<variant, ref_count, alive, owned, rpc, rcount, rseen, destroyCount,
           zeroedBy, destroyedBy, uaf, lastCall>>

hvars == <<tlAuto, nAuto, hstate, hev, hres>>

avars == <<apc, aret, running, acalls, hrefs, hostHolds, hdrops>>

vars == <<dvars, rvars, hvars, avars>>

----------------------------------------------------------------------------
(* debounce.rs *)

InitDebounce ==
    /\ now = 0
    /\ once = "incomplete"
    /\ cell = 0
    /\ nChan = 0
    /\ senders = [c \in Chans |-> 0]
    /\ queue = [c \in Chans |-> <<>>]
    /\ wpc = [c \in Chans |-> "none"]
    /\ wlast = [c \in Chans |-> NoMsg]
    /\ deadline = [c \in Chans |-> 0]
    /\ tpc = [t \in Threads |-> "idle"]
    /\ tmsg = [t \in Threads |-> NoMsg]
    /\ tsender = [t \in Threads |-> 0]
    /\ nextId = 1
    /\ subs = <<>>
    /\ stdout = <<>>

\* A caller enters debounce_print(message).
CallDebouncePrint(t) ==
    /\ tpc[t] = "idle"
    /\ now \in SubmitTimes
    /\ nextId <= MaxSubs
    /\ tpc' = [tpc EXCEPT ![t] = "get_or_init"]
    /\ tmsg' = [tmsg EXCEPT ![t] = Msg(nextId, Letters[nextId], "", Empty, Empty)]
    /\ nextId' = nextId + 1
    /\ UNCHANGED <<now, once, cell, nChan, senders, queue, wpc, wlast,
                   deadline, tsender, subs, stdout>>
    /\ UNCHANGED <<rvars, hvars, avars>>

\* OnceLock::get_or_init lets a caller run the closure only while the cell is
\* incomplete and no other caller is running it.
OnceMayInitRacy == once # "complete"
OnceMayInit == once = "incomplete"

\* DEBOUNCE_SENDER.get_or_init(..): return the stored sender, or start the
\* initialisation, or block while another thread initialises.
GetOrInit(t) ==
    /\ tpc[t] \in {"get_or_init", "wait"}
    /\ \/ /\ once = "complete"
          /\ tpc' = [tpc EXCEPT ![t] = "send"]
          /\ tsender' = [tsender EXCEPT ![t] = cell]
          /\ once' = once
       \/ /\ OnceMayInit
          /\ once' = "running"
          /\ tpc' = [tpc EXCEPT ![t] = "closure"]
          /\ tsender' = tsender
       \/ /\ once # "complete" /\ ~OnceMayInit
          /\ tpc[t] = "get_or_init"
          /\ tpc' = [tpc EXCEPT ![t] = "wait"]
          /\ UNCHANGED <<once, tsender>>
    /\ UNCHANGED <<now, cell, nChan, senders, queue, wpc, wlast, deadline,
                   tmsg, nextId, subs, stdout>>
    /\ UNCHANGED <<rvars, hvars, avars>>

\* The closure: mpsc::channel(), thread::spawn(debounce_worker(rx)), tx; the
\* OnceLock stores tx unless it is already complete, and get_or_init returns
\* the stored sender.
InitClosure(t) ==
    /\ tpc[t] = "closure"
    /\ LET c == nChan + 1
           kept == IF once = "complete" THEN cell ELSE c
       IN  /\ nChan' = c
           /\ queue' = [queue EXCEPT ![c] = <<>>]
           /\ wpc' = [wpc EXCEPT ![c] = "recv"]
           /\ senders' = [senders EXCEPT ![c] = IF kept = c THEN 1 ELSE 0]
           /\ cell' = kept
           /\ tsender' = [tsender EXCEPT ![t] = kept]
    /\ once' = "complete"
    /\ tpc' = [tpc EXCEPT ![t] = "send"]
    /\ UNCHANGED <<now, wlast, deadline, tmsg, nextId, subs, stdout>>
    /\ UNCHANGED <<rvars, hvars, avars>>

\* sender.send(DebounceEvent { message }); a send to a channel whose receiver
\* is gone fails and the failure is ignored.
Send(t) ==
    /\ tpc[t] = "send"
    /\ LET c == tsender[t]
       IN  /\ queue' = IF wpc[c] = "done" THEN queue
                       ELSE [queue EXCEPT ![c] = Append(@, tmsg[t])]
           /\ subs' = Append(subs, [time |-> now, id |-> tmsg[t].id,
                                    text |-> tmsg[t].text, chan |-> c,
                                    thread |-> t, msg |-> tmsg[t]])
    /\ tpc' = [tpc EXCEPT ![t] = "idle"]
    /\ tmsg' = [tmsg EXCEPT ![t] = NoMsg]
    /\ tsender' = [tsender EXCEPT ![t] = 0]
    /\ UNCHANGED <<now, once, cell, nChan, senders, wpc, wlast, deadline,
                   nextId, stdout>>
    /\ UNCHANGED <<rvars, hvars, avars>>

\* The duration handed to rx.recv_timeout.
RecvTimeoutShort == DEBOUNCE_MS - 10
RecvTimeout == DEBOUNCE_MS

\* rx.recv(): Ok(ev) starts the coalescing phase; Err (no sender left) returns.
WorkerRecv(c) ==
    /\ wpc[c] = "recv"
    /\ IF queue[c] # <<>>
       THEN /\ wlast' = [wlast EXCEPT ![c] = Head(queue[c])]
            /\ queue' = [queue EXCEPT ![c] = Tail(@)]
            /\ wpc' = [wpc EXCEPT ![c] = "recv_timeout"]
            /\ deadline' = [deadline EXCEPT ![c] = now + RecvTimeout]
       ELSE /\ senders[c] = 0
            /\ wpc' = [wpc EXCEPT ![c] = "done"]
            /\ UNCHANGED <<wlast, queue, deadline>>
    /\ UNCHANGED <<now, once, cell, nChan, senders, tpc, tmsg, tsender,
                   nextId, subs, stdout>>
    /\ UNCHANGED <<rvars, hvars, avars>>

\* (mutant) Ok(ev) restarts the wait but keeps the first message of the burst.
WorkerRecvTimeoutOkKeepsFirst(c) ==
    /\ wpc[c] = "recv_timeout"
    /\ queue[c] # <<>>
    /\ queue' = [queue EXCEPT ![c] = Tail(@)]
    /\ deadline' = [deadline EXCEPT ![c] = now + DEBOUNCE_MS]
    /\ UNCHANGED <<now, once, cell, nChan, senders, wpc, wlast, tpc, tmsg,
                   tsender, nextId, subs, stdout>>
    /\ UNCHANGED <<rvars, hvars, avars>>

\* (mutant) Ok(ev) replaces `last` only by a message of the same kind.
WorkerRecvTimeoutOkSameKind(c) ==
    /\ wpc[c] = "recv_timeout"
    /\ queue[c] # <<>>
    /\ wlast' = [wlast EXCEPT ![c] = IF Head(queue[c]).text = @.text
                                      THEN Head(queue[c]) ELSE @]
    /\ queue' = [queue EXCEPT ![c] = Tail(@)]
    /\ deadline' = [deadline EXCEPT ![c] = now + DEBOUNCE_MS]
    /\ UNCHANGED <<now, once, cell, nChan, senders, wpc, tpc, tmsg,
                   tsender, nextId, subs, stdout>>
    /\ UNCHANGED <<rvars, hvars, avars>>

\* (mutant) Ok(ev) replaces `last` but the wait goes on to the deadline set
\* when the burst began.
WorkerRecvTimeoutOkKeepsDeadline(c) ==
    /\ wpc[c] = "recv_timeout"
    /\ IF queue[c] # <<>>
       THEN /\ wlast' = [wlast EXCEPT ![c] = Head(queue[c])]
            /\ queue' = [queue EXCEPT ![c] = Tail(@)]
            /\ UNCHANGED <<deadline, wpc>>
       ELSE /\ senders[c] = 0
            /\ wpc' = [wpc EXCEPT ![c] = "done"]
            /\ UNCHANGED <<wlast, queue, deadline>>
    /\ UNCHANGED <<now, once, cell, nChan, senders, tpc, tmsg, tsender,
                   nextId, subs, stdout>>
    /\ UNCHANGED <<rvars, hvars, avars>>

\* rx.recv_timeout(..) returns Ok(ev): last = ev, and the wait starts again;
\* or Err(Disconnected): return.
WorkerRecvTimeoutOk(c) ==
    /\ wpc[c] = "recv_timeout"
    /\ IF queue[c] # <<>>
       THEN /\ wlast' = [wlast EXCEPT ![c] = Head(queue[c])]
            /\ queue' = [queue EXCEPT ![c] = Tail(@)]
            /\ deadline' = [deadline EXCEPT ![c] = now + RecvTimeout]
            /\ wpc' = wpc
       ELSE /\ senders[c] = 0
            /\ wpc' = [wpc EXCEPT ![c] = "done"]
            /\ UNCHANGED <<wlast, queue, deadline>>
    /\ UNCHANGED <<now, once, cell, nChan, senders, tpc, tmsg, tsender,
                   nextId, subs, stdout>>
    /\ UNCHANGED <<rvars, hvars, avars>>

\* (mutant) Err(Timeout) goes back to the outer receive without printing.
WorkerTimeoutSkips(c) ==
    /\ wpc[c] = "recv_timeout"
    /\ queue[c] = <<>>
    /\ senders[c] > 0
    /\ now >= deadline[c]
    /\ wpc' = [wpc EXCEPT ![c] = "recv"]
    /\ UNCHANGED <<now, once, cell, nChan, senders, queue, wlast, deadline,
                   tpc, tmsg, tsender, nextId, subs, stdout>>
    /\ UNCHANGED <<rvars, hvars, avars>>

\* (mutant) Err(Timeout) prints and returns from the worker.
WorkerTimeoutReturns(c) ==
    /\ wpc[c] = "recv_timeout"
    /\ queue[c] = <<>>
    /\ senders[c] > 0
    /\ now >= deadline[c]
    /\ stdout' = Append(stdout, [time |-> now, src |-> "worker",
                                 msg |-> wlast[c]])
    /\ wpc' = [wpc EXCEPT ![c] = "done"]
    /\ UNCHANGED <<now, once, cell, nChan, senders, queue, wlast, deadline,
                   tpc, tmsg, tsender, nextId, subs>>
    /\ UNCHANGED <<rvars, hvars, avars>>

\* (mutant) Err(Timeout) prints the line twice before it breaks.
WorkerTimeoutPrintsTwice(c) ==
    /\ wpc[c] = "recv_timeout"
    /\ queue[c] = <<>>
    /\ senders[c] > 0
    /\ now >= deadline[c]
    /\ LET line == [time |-> now, src |-> "worker", msg |-> wlast[c]]
       IN  stdout' = Append(Append(stdout, line), line)
    /\ wpc' = [wpc EXCEPT ![c] = "recv"]
    /\ UNCHANGED <<now, once, cell, nChan, senders, queue, wlast, deadline,
                   tpc, tmsg, tsender, nextId, subs>>
    /\ UNCHANGED <<rvars, hvars, avars>>

\* rx.recv_timeout(..) returns Err(Timeout): println!(last.message); break.
WorkerTimeout(c) ==
    /\ wpc[c] = "recv_timeout"
    /\ queue[c] = <<>>
    /\ senders[c] > 0
    /\ now >= deadline[c]
    /\ stdout' = Append(stdout, [time |-> now, src |-> "worker",
                                 msg |-> wlast[c]])
    /\ wpc' = [wpc EXCEPT ![c] = "recv"]
    /\ UNCHANGED <<now, once, cell, nChan, senders, queue, wlast, deadline,
                   tpc, tmsg, tsender, nextId, subs>>
    /\ UNCHANGED <<rvars, hvars, avars>>

\* The worker of channel c is blocked and no timeout of it is due.
WorkerBlocked(c) ==
    \/ wpc[c] \in {"none", "done"}
    \/ /\ queue[c] = <<>>
       /\ senders[c] > 0
       /\ \/ wpc[c] = "recv"
          \/ wpc[c] = "recv_timeout" /\ now < deadline[c]

\* The instants the clock visits besides the deadlines: those at which a
\* caller may enter, and one shortly after the latest deadline each can cause.
ClockInstants == SubmitTimes \cup {t + DEBOUNCE_MS + 10 : t \in SubmitTimes}

\* The instants after `now` at which something can happen.
NextInstants ==
    {t \in ClockInstants : t > now}
        \cup {deadline[c] : c \in {d \in Chans : wpc[d] = "recv_timeout"}}

\* Time passes to the next instant at which something can happen.
Advance ==
    /\ \A t \in Threads : tpc[t] = "idle"
    /\ \A c \in Chans : WorkerBlocked(c)
    /\ NextInstants # {}
    /\ now' = CHOOSE t \in NextInstants : \A u \in NextInstants : t <= u
    /\ UNCHANGED <<once, cell, nChan, senders, queue, wpc, wlast, deadline,
                   tpc, tmsg, tsender, nextId, subs, stdout>>
    /\ UNCHANGED <<rvars, hvars, avars>>

NextDebounce ==
    \/ \E t \in Threads : CallDebouncePrint(t)
    \/ \E t \in Threads : GetOrInit(t)
    \/ \E t \in Threads : InitClosure(t)
    \/ \E t \in Threads : Send(t)
    \/ \E c \in Chans : WorkerRecv(c)
    \/ \E c \in Chans : WorkerRecvTimeoutOk(c)
    \/ \E c \in Chans : WorkerTimeout(c)
    \/ Advance


----------------------------------------------------------------------------
(* uia/handlers.rs: the IUnknown part of the three handlers *)

\* The most references the host holds at once.
MaxRefs == 3

\* ref_count is an AtomicU32 whose operations wrap.  A u32 is written here by
\* its representative nearest 0, so -1 stands for u32::MAX and the wrapping
\* +1 and -1 are the integer ones; the counts reached stay within MaxRefs of 0.

\* ManualFocusHandler, ManualPropertyHandler, ManualTextChangedHandler
Variants == {"focus", "property", "text"}

\* The interface identifiers the host asks for.
IID_IUnknown == "IUnknown"
IID_Focus == "IUIAutomationFocusChangedEventHandler"
IID_Property == "IUIAutomationPropertyChangedEventHandler"
IID_Event == "IUIAutomationEventHandler"
IID_Other == "IDispatch"
Iids == {IID_IUnknown, IID_Focus, IID_Property, IID_Event, IID_Other}

S_OK == "S_OK"
E_NOINTERFACE == "E_NOINTERFACE"

\* The thread that runs run() and receives the object from new().
Creator == "t1"

NoCall == [op |-> "new", thread |-> Creator, iid |-> "", hr |-> "",
           out |-> "", before |-> 0, after |-> 0, ret |-> 0]

\* new(): ref_count: AtomicU32::new(1)
NewRefCount == 1

\* After new(): the Box is allocated and the creator holds the one reference.
InitRefOf(v) ==
    /\ variant = v
    /\ ref_count = NewRefCount
    /\ alive = TRUE
    /\ owned = [t \in Threads |-> IF t = Creator THEN 1 ELSE 0]
    /\ rpc = [t \in Threads |-> "idle"]
    /\ rcount = [t \in Threads |-> 0]
    /\ rseen = [t \in Threads |-> <<0, 0>>]
    /\ destroyCount = 0
    /\ zeroedBy = {}
    /\ destroyedBy = {}
    /\ uaf = FALSE
    /\ lastCall = [NoCall EXCEPT !.after = ref_count]

InitRef == \E v \in Variants : InitRefOf(v)

\* The references the threads hold: 1 + add_refs - releases.
RECURSIVE SumOwned(_)
SumOwned(S) ==
    IF S = {} THEN 0
    ELSE LET t == CHOOSE x \in S : TRUE IN owned[t] + SumOwned(S \ {t})

NetCount == SumOwned(Threads)

\* ref_count.fetch_add(1, Relaxed): the value stored.
FetchAdd(old) == old + 1

\* ref_count.fetch_sub(1, Relaxed): the value stored.
FetchSub(old) == old - 1

\* add_ref returns fetch_add(..) + 1.
AddRefReturnOld(old) == old
AddRefReturn(old) == old + 1

\* release: count = fetch_sub(..) - 1.
ReleaseCount(old) == old - 1

\* The `iid` test of each variant's query_interface.
QueryInterfaceAcceptsCopied(v, iid) == iid = IID_IUnknown \/ iid = IID_Focus
QueryInterfaceAccepts(v, iid) ==
    CASE v = "focus" -> iid = IID_IUnknown \/ iid = IID_Focus
      [] v = "property" -> iid = IID_IUnknown \/ iid = IID_Property
      [] v = "text" -> iid = IID_IUnknown \/ iid = IID_Event

\* add_ref, called by thread t through a reference it holds; the new
\* reference goes to thread u.
AddRef(t, u) ==
    /\ rpc[t] = "idle"
    /\ owned[t] >= 1
    /\ NetCount < MaxRefs
    /\ ref_count' = FetchAdd(ref_count)
    /\ owned' = [owned EXCEPT ![u] = @ + 1]
    /\ uaf' = (uaf \/ ~alive)
    /\ lastCall' = [NoCall EXCEPT !.op = "add_ref", !.thread = t,
                                  !.before = ref_count, !.after = ref_count',
                                  !.ret = AddRefReturn(ref_count)]
    /\ UNCHANGED <<variant, alive, rpc, rcount, rseen, destroyCount,
                   zeroedBy, destroyedBy>>
    /\ UNCHANGED <<dvars, hvars, avars>>

\* query_interface(this, iid, interface), called by thread t through a
\* reference it holds; a reference handed out belongs to t.
QueryInterface(t, iid) ==
    /\ rpc[t] = "idle"
    /\ owned[t] >= 1
    /\ QueryInterfaceAccepts(variant, iid) => NetCount < MaxRefs
    /\ IF QueryInterfaceAccepts(variant, iid)
       THEN /\ ref_count' = FetchAdd(ref_count)
            /\ owned' = [owned EXCEPT ![t] = @ + 1]
            /\ lastCall' = [NoCall EXCEPT !.op = "query_interface",
                              !.thread = t, !.iid = iid, !.hr = S_OK,
                              !.out = "this", !.before = ref_count,
                              !.after = ref_count']
       ELSE /\ UNCHANGED <<ref_count, owned>>
            /\ lastCall' = [NoCall EXCEPT !.op = "query_interface",
                              !.thread = t, !.iid = iid, !.hr = E_NOINTERFACE,
                              !.out = "null", !.before = ref_count,
                              !.after = ref_count']
    /\ uaf' = (uaf \/ ~alive)
    /\ UNCHANGED <<variant, alive, rpc, rcount, rseen, destroyCount,
                   zeroedBy, destroyedBy>>
    /\ UNCHANGED <<dvars, hvars, avars>>

\* release, first half: count = fetch_sub(1) - 1, by a thread that gives up a
\* reference it holds.
ReleaseFetchSub(t) ==
    /\ rpc[t] = "idle"
    /\ owned[t] >= 1
    /\ ref_count' = FetchSub(ref_count)
    /\ rcount' = [rcount EXCEPT ![t] = ReleaseCount(ref_count)]
    /\ rseen' = [rseen EXCEPT ![t] = <<ref_count, ref_count'>>]
    /\ owned' = [owned EXCEPT ![t] = @ - 1]
    /\ rpc' = [rpc EXCEPT ![t] = "release"]
    /\ zeroedBy' = IF NetCount = 1 THEN zeroedBy \cup {t} ELSE zeroedBy
    /\ uaf' = (uaf \/ ~alive)
    /\ lastCall' = [NoCall EXCEPT !.op = "fetch_sub", !.thread = t,
                                  !.before = ref_count, !.after = ref_count']
    /\ UNCHANGED <<variant, alive, destroyCount, destroyedBy>>
    /\ UNCHANGED <<dvars, hvars, avars>>

\* release: the test that decides whether this call drops the Box.
ReleaseDropsAtOne(t) == rcount[t] = 1
ReleaseRereadsCount(t) == ref_count = 0
ReleaseObservedZero(t) == rcount[t] = 0

\* release, second half: if count == 0 { drop(Box::from_raw(this)) }; count
ReleaseFinish(t) ==
    /\ rpc[t] = "release"
    /\ IF ReleaseObservedZero(t)
       THEN /\ alive' = FALSE
            /\ destroyCount' = destroyCount + 1
            /\ destroyedBy' = destroyedBy \cup {t}
       ELSE UNCHANGED <<alive, destroyCount, destroyedBy>>
    /\ rpc' = [rpc EXCEPT ![t] = "idle"]
    /\ rcount' = [rcount EXCEPT ![t] = 0]
    /\ rseen' = [rseen EXCEPT ![t] = <<0, 0>>]
    /\ lastCall' = [NoCall EXCEPT !.op = "release", !.thread = t,
                                  !.before = rseen[t][1],
                                  !.after = rseen[t][2], !.ret = rcount[t]]
    /\ UNCHANGED <<variant, ref_count, owned, zeroedBy, uaf>>
    /\ UNCHANGED <<dvars, hvars, avars>>

NextRef ==
    \/ \E t, u \in Threads : AddRef(t, u)
    \/ \E t \in Threads : \E iid \in Iids : QueryInterface(t, iid)
    \/ \E t \in Threads : ReleaseFetchSub(t)
    \/ \E t \in Threads : ReleaseFinish(t)

----------------------------------------------------------------------------
(* uia/text.rs *)

\* text.rs:19
MAX_TEXT_LEN == 4096

\* The lengths of the strings the host holds.
TextLens == {0, 5}

\* What a host call that yields a string returns: Err, or Ok(string).
HostErr == [ok |-> FALSE, src |-> "", len |-> 0]
HostOk(src, n) == [ok |-> TRUE, src |-> Str(src, n).src, len |-> n]
HostStrings(src) == {HostErr} \cup {HostOk(src, n) : n \in TextLens}

\* BSTR::to_string of what a host call returned.
BstrToString(r) == Str(r.src, r.len)

\* The whole text of a document range.
RangeAll(r) == Str(r.src, r.len)

\* range.GetText(maxLength): the host returns at most maxLength characters
\* (all of them for -1).
RangeGetTextUnbounded(r, maxLength) == RangeAll(r)
RangeGetText(r, maxLength) ==
    Str(r.src, IF r.len > maxLength THEN maxLength ELSE r.len)

\* The element FindFirst returns, or its failure (no descendant matches, or
\* the call fails).
FoundNone == [ok |-> FALSE, value |-> HostErr, text |-> HostErr]
FindResults ==
    {FoundNone} \cup
    [ok : {TRUE}, value : HostStrings("found.value"),
     text : HostStrings("found.text")]

\* get_text: the value pattern first; its value is returned when it is
\* obtained and not empty.  Otherwise the text pattern's document range, read
\* up to MAX_TEXT_LEN.  Otherwise the empty string.  `trace` lists the host
\* calls made (history).
GetTextRangeFirst(e, who) ==
    IF e.text.ok /\ ~IsEmpty(RangeGetText(e.text, MAX_TEXT_LEN))
    THEN [text |-> RangeGetText(e.text, MAX_TEXT_LEN),
          trace |-> <<<<who, "TextPattern">>>>]
    ELSE IF e.value.ok
    THEN [text |-> BstrToString(e.value),
          trace |-> <<<<who, "TextPattern">>, <<who, "ValuePattern">>>>]
    ELSE [text |-> Empty,
          trace |-> <<<<who, "TextPattern">>, <<who, "ValuePattern">>>>]
GetText(e, who) ==
    IF e.value.ok /\ ~IsEmpty(BstrToString(e.value))
    THEN [text |-> BstrToString(e.value), trace |-> <<<<who, "ValuePattern">>>>]
    ELSE IF e.text.ok
    THEN [text |-> RangeGetText(e.text, MAX_TEXT_LEN),
          trace |-> <<<<who, "ValuePattern">>, <<who, "TextPattern">>>>]
    ELSE [text |-> Empty,
          trace |-> <<<<who, "ValuePattern">>, <<who, "TextPattern">>>>]

\* get_text(&found), with a variant that goes on to the further matching
\* nodes of the host's tree (e.rest) when the first match has no text.
FoundTextDeeper(e) ==
    LET g == GetText(e.found, "found")
    IN  IF IsEmpty(g.text) /\ e.rest
        THEN [text |-> Str("rest.value", 5),
              trace |-> g.trace \o <<<<"found", "FindFirst">>,
                                     <<"rest", "ValuePattern">>>>]
        ELSE g
FoundText(e) == GetText(e.found, "found")

\* The host calls of the descendant search that can fail, besides FindFirst.
HostFails == {"none", "create", "cond_text", "cond_value", "or"}

\* What get_text_deep returned: Ok(text) or Err, the host calls it made, and
\* TL_AUTOMATION of the calling thread afterwards.
Deep(ok, text, trace, tl) ==
    [called |-> TRUE, ok |-> ok, text |-> text, trace |-> trace, tl |-> tl]

NoDeep(tl) ==
    [called |-> FALSE, ok |-> FALSE, text |-> Empty, trace |-> <<>>, tl |-> tl]

\* The closure of get_text_deep ends: `found`, the element FindFirst
\* returned, is dropped, which releases it.  With a variant that keeps it.
KeepFound(trace) == trace
DropFound(trace) == Append(trace, <<"found", "Release">>)

\* (mutant) with_thread_automation without the cache: it creates a handle on
\* every call.
WithThreadAutomationUncached(e, tl, fresh, hf, trace) ==
    IF hf = "create"
    THEN Deep(FALSE, Empty,
              trace \o <<<<"host", "CoInitializeEx">>,
                         <<"host", "CoCreateInstance">>>>, tl)
    ELSE
      LET t0 == trace \o <<<<"host", "CoInitializeEx">>,
                           <<"host", "CoCreateInstance">>>>
          t1 == Append(t0, <<"automation", "CreatePropertyCondition(text)">>)
          t2 == Append(t1, <<"automation", "CreatePropertyCondition(value)">>)
          t3 == Append(t2, <<"automation", "CreateOrCondition">>)
          t4 == Append(t3, <<"elem", "FindFirst">>)
      IN  IF hf = "cond_text" THEN Deep(FALSE, Empty, t1, fresh)
          ELSE IF hf = "cond_value" THEN Deep(FALSE, Empty, t2, fresh)
          ELSE IF hf = "or" THEN Deep(FALSE, Empty, t3, fresh)
          ELSE IF ~e.found.ok THEN Deep(TRUE, Empty, t4, fresh)
          ELSE LET g == GetText(e.found, "found")
               IN  Deep(TRUE, g.text, t4 \o g.trace, fresh)

\* with_thread_automation(f) with f the closure of get_text_deep: create the
\* handle of this thread unless it is cached, then build the two conditions
\* and their OR, FindFirst, and get_text of what was found.  `tl` is
\* TL_AUTOMATION of the thread, `fresh` the handle CoCreateInstance would
\* return, `hf` the host call that fails.
WithThreadAutomation(e, tl, fresh, hf, trace) ==
    IF tl = 0 /\ hf = "create"
    THEN Deep(FALSE, Empty,
              trace \o <<<<"host", "CoInitializeEx">>,
                         <<"host", "CoCreateInstance">>>>, 0)
    ELSE
      LET a == IF tl = 0 THEN fresh ELSE tl
          t0 == IF tl = 0
                THEN trace \o <<<<"host", "CoInitializeEx">>,
                                <<"host", "CoCreateInstance">>>>
                ELSE trace
          t1 == Append(t0, <<"automation", "CreatePropertyCondition(text)">>)
          t2 == Append(t1, <<"automation", "CreatePropertyCondition(value)">>)
          t3 == Append(t2, <<"automation", "CreateOrCondition">>)
          t4 == Append(t3, <<"elem", "FindFirst">>)
      IN  IF hf = "cond_text" THEN Deep(FALSE, Empty, t1, a)
          ELSE IF hf = "cond_value" THEN Deep(FALSE, Empty, t2, a)
          ELSE IF hf = "or" THEN Deep(FALSE, Empty, t3, a)
          ELSE IF ~e.found.ok THEN Deep(TRUE, Empty, t4, a)
          ELSE LET g == FoundText(e)
               IN  Deep(TRUE, g.text, DropFound(t4 \o g.trace), a)

\* get_text_deep(element), with a variant that enters
\* with_thread_automation before it looks at the element's own text.
GetTextDeepEager(e, tl, fresh, hf) ==
    LET own == GetText(e, "elem")
        w == WithThreadAutomation(e, tl, fresh, hf, own.trace)
    IN  IF ~IsEmpty(own.text)
        THEN Deep(TRUE, own.text, w.trace, w.tl)
        ELSE w
GetTextDeep(e, tl, fresh, hf) ==
    LET own == GetText(e, "elem")
    IN  IF ~IsEmpty(own.text)
        THEN Deep(TRUE, own.text, own.trace, tl)
        ELSE WithThreadAutomation(e, tl, fresh, hf, own.trace)

----------------------------------------------------------------------------
(* uia/handlers.rs: the behaviour methods *)

\* CurrentControlType(): Err, or Ok(control type).
ControlTypes == {"Edit", "Group", "Document", "Button"}
CtypeResults ==
    {[ok |-> FALSE, val |-> ""]} \cup [ok : {TRUE}, val : ControlTypes]

\* CurrentHasKeyboardFocus(): Err, or Ok(BOOL).
FocusResults ==
    {[ok |-> FALSE, val |-> FALSE]} \cup [ok : {TRUE}, val : BOOLEAN]

\* CurrentName(): Err, or Ok(name).
NameResults == {HostErr, HostOk("name", 3)}

\* The elements of the host's tree an event can fire on.
Elements ==
    [ctype : CtypeResults, focus : FocusResults, name : NameResults,
     value : HostStrings("value"), text : HostStrings("text"),
     found : FindResults]

\* The element behind a null `sender`.
NullElem ==
    [ctype |-> [ok |-> FALSE, val |-> ""], focus |-> [ok |-> FALSE, val |-> FALSE],
     name |-> HostErr, value |-> HostErr, text |-> HostErr, found |-> FoundNone]

\* The property and event identifiers the host passes.
UIA_ValueValuePropertyId == "UIA_ValueValuePropertyId"
PropertyIds == {UIA_ValueValuePropertyId, "UIA_NamePropertyId"}
UIA_Text_TextChangedEventId == "UIA_Text_TextChangedEventId"
EventIds == {UIA_Text_TextChangedEventId, "UIA_Text_TextSelectionChangedEventId"}

\* new_value.to_string(): the strings the payload can hold.
PayloadStrings == {Empty, Str("new_value", 4)}

\* An event as the host raises it: the behaviour it calls, on which thread,
\* and the arguments.
Event(kind, t, null, e, pid, val, eid) ==
    [kind |-> kind, thread |-> t, sender_null |-> null, elem |-> e,
     property_id |-> pid, new_value |-> val, event_id |-> eid]

NoEvent == Event("none", "", TRUE, NullElem, "", Empty, "")

\* What a behaviour method did: the HRESULT it returned ("" until it
\* returns), how often it called debounce_print and with what, what
\* get_text_deep returned to it, the text it settled on and the lines it
\* printed itself.
Result(ret, calls, msg, deep, text, lines) ==
    [ret |-> ret, calls |-> calls, msg |-> msg, deep |-> deep,
     current_text |-> text, lines |-> lines]

\* .unwrap_or(BSTR::new()) of CurrentName()
NameOf(e) == IF e.name.ok THEN BstrToString(e.name) ELSE Empty

\* .unwrap_or_default().as_bool() of CurrentHasKeyboardFocus(), with a
\* variant that takes a failed query for "has the focus".
HasKeyboardFocusOrErr(e) == ~e.focus.ok \/ e.focus.val
HasKeyboardFocus(e) == e.focus.ok /\ e.focus.val

\* .unwrap_or_default() of CurrentControlType(): UIA_CONTROLTYPE_ID(0) on Err
ControlTypeOrDefault(e) == IF e.ctype.ok THEN e.ctype.val ELSE "0"

InitHandlers ==
    /\ tlAuto = [t \in Threads |-> 0]
    /\ nAuto = 0
    /\ hstate = "none"
    /\ hev = NoEvent
    /\ hres = Result("", 0, NoMsg, NoDeep(0), Empty, <<>>)

\* The control types handle_focus_changed_event and
\* handle_property_changed_event let pass.
EditOrGroupOrDocument(ct) == ct \in {"Edit", "Group", "Document"}
EditOrGroup(ct) == ct = "Edit" \/ ct = "Group"

\* The control types handle_automation_event lets pass.
EditOrGroupOnly(ct) == ct \in {"Edit", "Group"}
EditDocumentOrGroup(ct) == ct = "Edit" \/ ct = "Document" \/ ct = "Group"

\* The behaviour method of thread t ends: it returns S_OK at once, or it is
\* inside debounce_print(msg) and returns S_OK after it.
Finish(t, ev, calls, msg, deep, text, lines) ==
    /\ hev' = ev
    /\ tlAuto' = [tlAuto EXCEPT ![t] = deep.tl]
    /\ nAuto' = IF deep.tl # tlAuto[t] THEN nAuto + 1 ELSE nAuto
    /\ stdout' = stdout \o lines
    /\ IF calls = 1
       THEN /\ hstate' = "running"
            /\ hres' = Result("", 1, [msg EXCEPT !.id = nextId], deep, text, lines)
            /\ tpc' = [tpc EXCEPT ![t] = "get_or_init"]
            /\ tmsg' = [tmsg EXCEPT ![t] = [msg EXCEPT !.id = nextId]]
            /\ nextId' = nextId + 1
       ELSE /\ hstate' = "returned"
            /\ hres' = Result(S_OK, 0, NoMsg, deep, text, lines)
            /\ UNCHANGED <<tpc, tmsg, nextId>>
    /\ UNCHANGED <<now, once, cell, nChan, senders, queue, wpc, wlast,
                   deadline, tsender, subs>>
    /\ UNCHANGED <<rvars, avars>>

\* A line a behaviour method prints itself.
Line(text, ctype, name, body) ==
    [time |-> now, src |-> "handler", msg |-> Msg(0, text, ctype, name, body)]

\* handle_focus_changed_event(_this, sender) on thread t
HandleFocusChangedEvent(t, null, e, hf) ==
    /\ hstate = "none"
    /\ tpc[t] = "idle"
    /\ LET ev == Event("focus", t, null, e, "", Empty, "")
           pass == ~null /\ e.ctype.ok /\ EditOrGroup(e.ctype.val)
           deep == IF pass THEN GetTextDeep(e, tlAuto[t], nAuto + 1, hf)
                   ELSE NoDeep(tlAuto[t])
           lines ==
               IF pass
               THEN <<Line("focus", e.ctype.val, NameOf(e), Empty)>> \o
                    (IF deep.ok
                     THEN <<Line("content", "", Empty, deep.text)>>
                     ELSE <<>>)
               ELSE <<>>
       IN  Finish(t, ev, 0, NoMsg, deep, Empty, lines)

\* current_text: the payload's string, or when that is empty what
\* get_text_deep(element).unwrap_or_default() gives.
CurrentTextPayloadOnly(val, deep) == val
CurrentText(val, deep) ==
    IF IsEmpty(val)
    THEN (IF deep.ok THEN deep.text ELSE Empty)
    ELSE val

\* handle_property_changed_event(_this, sender, property_id, new_value) on
\* thread t
HandlePropertyChangedEvent(t, null, e, pid, val, hf) ==
    /\ hstate = "none"
    /\ tpc[t] = "idle"
    /\ LET ev == Event("property", t, null, e, pid, val, "")
           pass == /\ pid = UIA_ValueValuePropertyId
                   /\ ~null
                   /\ e.ctype.ok
                   /\ EditOrGroup(e.ctype.val)
           deep == IF pass /\ IsEmpty(val)
                   THEN GetTextDeep(e, tlAuto[t], nAuto + 1, hf)
                   ELSE NoDeep(tlAuto[t])
           current_text == IF ~pass THEN Empty ELSE CurrentText(val, deep)
           submit == pass /\ HasKeyboardFocus(e) /\ ~IsEmpty(current_text)
           msg == Msg(0, "property", e.ctype.val, NameOf(e), current_text)
       IN  Finish(t, ev, IF submit THEN 1 ELSE 0,
                  IF submit THEN msg ELSE NoMsg, deep, current_text, <<>>)

\* handle_automation_event(_this, sender, event_id) on thread t
HandleAutomationEvent(t, null, e, eid, hf) ==
    /\ hstate = "none"
    /\ tpc[t] = "idle"
    /\ LET ev == Event("text", t, null, e, "", Empty, eid)
           control_type == ControlTypeOrDefault(e)
           pass == /\ eid = UIA_Text_TextChangedEventId
                   /\ ~null
                   /\ HasKeyboardFocus(e)
                   /\ EditDocumentOrGroup(control_type)
           deep == IF pass THEN GetTextDeep(e, tlAuto[t], nAuto + 1, hf)
                   ELSE NoDeep(tlAuto[t])
           submit == pass /\ deep.ok /\ ~IsEmpty(deep.text)
           msg == Msg(0, "text", control_type, NameOf(e), deep.text)
       IN  Finish(t, ev, IF submit THEN 1 ELSE 0,
                  IF submit THEN msg ELSE NoMsg, deep,
                  IF pass /\ deep.ok THEN deep.text ELSE Empty, <<>>)

\* debounce_print returned to the behaviour method, which returns S_OK.
HandlerReturn(t) ==
    /\ hstate = "running"
    /\ hev.thread = t
    /\ tpc[t] = "idle"
    /\ hstate' = "returned"
    /\ hres' = [hres EXCEPT !.ret = S_OK]
    /\ UNCHANGED <<tlAuto, nAuto, hev>>
    /\ UNCHANGED <<dvars, rvars, avars>>

\* The `sender` of an event: null, or an element.
Senders == {<<TRUE, NullElem>>} \cup {<<FALSE, e>> : e \in Elements}

\* The threads on which the host raises events.
HostThreads == {"t2"}

\* Time passes while a worker waits in recv_timeout.
WorkerWaits ==
    /\ \E c \in Chans : wpc[c] = "recv_timeout"
    /\ Advance

\* The host raises a focus-changed event.
FocusChanged ==
    /\ hstate = "none"
    /\ \E t \in HostThreads : \E s \in Senders : \E hf \in HostFails :
          HandleFocusChangedEvent(t, s[1], s[2], hf)

\* The host raises a property-changed event.
PropertyChanged ==
    /\ hstate = "none"
    /\ \E t \in HostThreads : \E s \in Senders : \E pid \in PropertyIds :
       \E val \in PayloadStrings : \E hf \in HostFails :
          HandlePropertyChangedEvent(t, s[1], s[2], pid, val, hf)

\* The host raises an automation event.
AutomationEvent ==
    /\ hstate = "none"
    /\ \E t \in HostThreads : \E s \in Senders : \E eid \in EventIds :
       \E hf \in HostFails :
          HandleAutomationEvent(t, s[1], s[2], eid, hf)

NextRouter ==
    \/ FocusChanged
    \/ PropertyChanged
    \/ AutomationEvent
    \/ \E t \in Threads : HandlerReturn(t)
    \/ \E t \in Threads : GetOrInit(t)
    \/ \E t \in Threads : InitClosure(t)
    \/ \E t \in Threads : Send(t)
    \/ \E c \in Chans : WorkerRecv(c)
    \/ \E c \in Chans : WorkerTimeout(c)
    \/ WorkerWaits

----------------------------------------------------------------------------
(* Several events in a row *)

\* Two focused elements with a text: an edit control with a value, and a
\* group without one whose text comes from its document range.
BurstElements ==
    {[ctype |-> [ok |-> TRUE, val |-> "Edit"],
      focus |-> [ok |-> TRUE, val |-> TRUE],
      name |-> HostOk("name", 3),
      value |-> HostOk("value", 5), text |-> HostErr, found |-> FoundNone],
     [ctype |-> [ok |-> TRUE, val |-> "Group"],
      focus |-> [ok |-> TRUE, val |-> TRUE],
      name |-> HostErr,
      value |-> HostErr, text |-> HostOk("text", 5), found |-> FoundNone]}

\* The instants at which the host raises the events of the burst.
BurstTimes == {0, 50}

\* The host raises a property-changed event with a payload on the edit
\* control, on any thread.
BurstPropertyChanged ==
    /\ hstate = "none"
    /\ nextId <= MaxSubs
    /\ now \in BurstTimes
    /\ \E t \in Threads : \E e \in {b \in BurstElements : b.value.ok} :
          HandlePropertyChangedEvent(t, FALSE, e, UIA_ValueValuePropertyId,
                                     Str("new_value", 4), "none")

\* The host raises a text-changed event on either element, on any thread.
BurstTextChanged ==
    /\ hstate = "none"
    /\ nextId <= MaxSubs
    /\ now \in BurstTimes
    /\ \E t \in Threads : \E e \in BurstElements :
          HandleAutomationEvent(t, FALSE, e, UIA_Text_TextChangedEventId, "none")

\* The host goes on to its next event; it does not wait for a behaviour
\* method that is still running on another thread.  What is recorded of the
\* previous event is dropped.
HostRaisesNext ==
    /\ hstate = "running"
    /\ hstate' = "none"
    /\ hev' = NoEvent
    /\ hres' = Result("", 0, NoMsg, NoDeep(0), Empty, <<>>)
    /\ UNCHANGED <<tlAuto, nAuto>>
    /\ UNCHANGED <<dvars, rvars, avars>>

NextBurst ==
    \/ BurstPropertyChanged
    \/ BurstTextChanged
    \/ HostRaisesNext
    \/ \E t \in Threads : GetOrInit(t)
    \/ \E t \in Threads : InitClosure(t)
    \/ \E t \in Threads : Send(t)
    \/ \E c \in Chans : WorkerRecv(c)
    \/ \E c \in Chans : WorkerRecvTimeoutOk(c)
    \/ \E c \in Chans : WorkerTimeout(c)
    \/ Advance

----------------------------------------------------------------------------
(* uia/text.rs called on its own *)

\* The length of a document that is longer than get_text asks for.
LongTextLen == MAX_TEXT_LEN + 1

\* The elements get_text and get_text_deep are called on: what the value
\* pattern, the text pattern and FindFirst yield, and whether the host's tree
\* holds further matching nodes (a second matching descendant, and a matching
\* descendant of the node found), each with a value of its own.
TextElements ==
    [ctype : {[ok |-> TRUE, val |-> "Edit"]},
     focus : {[ok |-> TRUE, val |-> TRUE]},
     name : {HostErr},
     value : HostStrings("value"),
     text : HostStrings("text") \cup {HostOk("text", LongTextLen)},
     found : FindResults, rest : BOOLEAN]

\* TL_AUTOMATION of the threads when the call is made: None, or the handle an
\* earlier call on that thread left there.
InitText ==
    /\ \E n \in 0..Cardinality(Threads) :
          /\ nAuto = n
          /\ tlAuto \in {f \in [Threads -> 0..n] :
                           /\ \A h \in 1..n : \E t \in Threads : f[t] = h
                           /\ \A t, u \in Threads :
                                 (t # u /\ f[t] # 0) => f[t] # f[u]}
    /\ hstate = "none"
    /\ hev = NoEvent
    /\ hres = Result("", 0, NoMsg, NoDeep(0), Empty, <<>>)

\* A call returned `deep` to thread t.
Returned(t, ev, deep) ==
    /\ hstate = "none"
    /\ hstate' = "returned"
    /\ hev' = ev
    /\ hres' = Result(IF deep.ok THEN "Ok" ELSE "Err", 0, NoMsg, deep,
                      deep.text, <<>>)
    /\ tlAuto' = [tlAuto EXCEPT ![t] = deep.tl]
    /\ nAuto' = IF deep.tl # tlAuto[t] THEN nAuto + 1 ELSE nAuto
    /\ UNCHANGED <<dvars, rvars, avars>>

\* get_text(element) on thread t
CallGetText(t, e) ==
    LET g == GetText(e, "elem")
    IN  Returned(t, Event("get_text", t, FALSE, e, "", Empty, ""),
                 Deep(TRUE, g.text, g.trace, tlAuto[t]))

\* get_text_deep(element) on thread t, where the host call hf fails
CallGetTextDeep(t, e, hf) ==
    Returned(t, Event("get_text_deep", t, FALSE, e, "", Empty, hf),
             GetTextDeep(e, tlAuto[t], nAuto + 1, hf))

NextText ==
    \/ \E t \in Threads : \E e \in TextElements : CallGetText(t, e)
    \/ \E t \in Threads : \E e \in TextElements : \E hf \in HostFails :
          CallGetTextDeep(t, e, hf)

----------------------------------------------------------------------------
(* get_text_deep called again and again *)

\* Two elements: one with a text of its own, and one whose text comes from a
\* descendant, so that get_text_deep enters with_thread_automation.
CacheElements ==
    {e \in TextElements :
        /\ ~e.rest
        /\ e.text = HostErr
        /\ e.found = [ok |-> TRUE, value |-> HostOk("found.value", 5),
                           text |-> HostErr]
        /\ e.value \in {HostErr, HostOk("value", 5)}}

\* get_text_deep(element) on any thread, with any host call failing.
CacheCall ==
    /\ hstate = "none"
    /\ \E t \in Threads : \E e \in CacheElements : \E hf \in HostFails :
          CallGetTextDeep(t, e, hf)

\* The call returned, and the next one can be made.
NextCall ==
    /\ hstate = "returned"
    /\ hstate' = "none"
    /\ UNCHANGED <<tlAuto, nAuto, hev, hres>>
    /\ UNCHANGED <<dvars, rvars, avars>>

NextCache == CacheCall \/ NextCall

----------------------------------------------------------------------------
(* uia/app.rs *)

\* What a host call returns to run().
CallResults == {"Ok", "Err"}

\* The registration call of each handler.
AddCall(v) ==
    CASE v = "focus" -> "AddFocusChangedEventHandler"
      [] v = "property" -> "AddPropertyChangedEventHandler"
      [] v = "text" -> "AddAutomationEventHandler"

\* The host calls run() made so far that are `call`, and those that
\* returned `res`.
CallsNamed(call) == {k \in 1..Len(acalls) : acalls[k][1] = call}
CallReturned(call, res) == \E k \in CallsNamed(call) : acalls[k][2] = res

\* The host holds the registration of handler v.
Registered(v) ==
    /\ CallReturned(AddCall(v), "Ok")
    /\ CallsNamed("RemoveAllEventHandlers") = {}

InitApp ==
    /\ apc = "CoInitializeEx"
    /\ aret = ""
    /\ running = 0
    /\ acalls = <<>>
    /\ hrefs = [v \in Variants |-> 0]
    /\ hostHolds = [v \in Variants |-> 0]
    /\ hdrops = [v \in Variants |-> 0]

\* (mutant) run() ignores the result of the host call and goes on.
CallIgnoresErr(call, res, next, drop) ==
    /\ acalls' = Append(acalls, <<call, res>>)
    /\ apc' = next
    /\ UNCHANGED <<aret, running, hrefs, hostHolds, hdrops>>
    /\ UNCHANGED <<dvars, rvars, hvars>>

\* The property-id array after SafeArrayPutElement(sa, &idx, &prop_id_val).
PropertyArray ==
    IF CallReturned("SafeArrayPutElement", "Ok")
    THEN <<UIA_ValueValuePropertyId>>
    ELSE <<>>

\* run() made the host call `call`: on Ok it goes on to `next`; on Err the
\* `?` returns the error, after the locals are dropped (`drop` says whether
\* the handlers exist by then).
Call(call, res, next, drop) ==
    /\ acalls' = Append(acalls, <<call, res>>)
    /\ IF res = "Ok"
       THEN apc' = next /\ aret' = aret
       ELSE apc' = (IF drop THEN "drop" ELSE "returned") /\ aret' = "Err"
    /\ UNCHANGED <<running, hrefs, hostHolds, hdrops>>
    /\ UNCHANGED <<dvars, rvars, hvars>>

\* CoInitializeEx(None, COINIT_MULTITHREADED).ok()?
RunCoInitializeEx(res) ==
    /\ apc = "CoInitializeEx"
    /\ Call("CoInitializeEx", res, "CoCreateInstance", FALSE)

\* CoCreateInstance(&CUIAutomation, ..)?
RunCoCreateInstance(res) ==
    /\ apc = "CoCreateInstance"
    /\ Call("CoCreateInstance", res, "new", FALSE)

\* ManualFocusHandler::new(), ManualPropertyHandler::new(),
\* ManualTextChangedHandler::new(), each transmuted into its interface.
RunNewHandlers ==
    /\ apc = "new"
    /\ apc' = "AddFocusChangedEventHandler"
    /\ hrefs' = [v \in Variants |-> NewRefCount]
    /\ UNCHANGED <<aret, running, acalls, hostHolds, hdrops>>
    /\ UNCHANGED <<dvars, rvars, hvars>>

\* automation.AddFocusChangedEventHandler(None, &focus_interface)?
RunAddFocusChangedEventHandler(res) ==
    /\ apc = "AddFocusChangedEventHandler"
    /\ Call("AddFocusChangedEventHandler", res, "GetRootElement", TRUE)

\* automation.GetRootElement()?
RunGetRootElement(res) ==
    /\ apc = "GetRootElement"
    /\ Call("GetRootElement", res, "SafeArrayCreateVector", TRUE)

\* SafeArrayCreateVector(VT_I4, 0, 1); a null array panics.
RunSafeArrayCreateVector(res) ==
    /\ apc = "SafeArrayCreateVector"
    /\ acalls' = Append(acalls, <<"SafeArrayCreateVector", res>>)
    /\ IF res = "Ok"
       THEN apc' = "SafeArrayPutElement" /\ aret' = aret
       ELSE apc' = "drop" /\ aret' = "panic"
    /\ UNCHANGED <<running, hrefs, hostHolds, hdrops>>
    /\ UNCHANGED <<dvars, rvars, hvars>>

\* SafeArrayPutElement(sa, ..)?
RunSafeArrayPutElement(res) ==
    /\ apc = "SafeArrayPutElement"
    /\ Call("SafeArrayPutElement", res, "AddPropertyChangedEventHandler", TRUE)

\* let result = automation.AddPropertyChangedEventHandler(.., sa)
RunAddPropertyChangedEventHandler(res) ==
    /\ apc = "AddPropertyChangedEventHandler"
    /\ acalls' = Append(acalls, <<"AddPropertyChangedEventHandler", res>>)
    /\ apc' = "SafeArrayDestroy"
    /\ UNCHANGED <<aret, running, hrefs, hostHolds, hdrops>>
    /\ UNCHANGED <<dvars, rvars, hvars>>

\* let _ = SafeArrayDestroy(sa); result?
RunSafeArrayDestroy(res) ==
    /\ apc = "SafeArrayDestroy"
    /\ acalls' = Append(acalls, <<"SafeArrayDestroy", res>>)
    /\ IF CallReturned("AddPropertyChangedEventHandler", "Ok")
       THEN apc' = "AddAutomationEventHandler" /\ aret' = aret
       ELSE apc' = "drop" /\ aret' = "Err"
    /\ UNCHANGED <<running, hrefs, hostHolds, hdrops>>
    /\ UNCHANGED <<dvars, rvars, hvars>>

\* automation.AddAutomationEventHandler(UIA_Text_TextChangedEventId, ..)?
\* and, on Ok, let running = Arc::new(AtomicU32::new(1))
RunAddAutomationEventHandler(res) ==
    /\ apc = "AddAutomationEventHandler"
    /\ acalls' = Append(acalls, <<"AddAutomationEventHandler", res>>)
    /\ IF res = "Ok"
       THEN apc' = "wait" /\ aret' = aret /\ running' = 1
       ELSE apc' = "drop" /\ aret' = "Err" /\ running' = running
    /\ UNCHANGED <<hrefs, hostHolds, hdrops>>
    /\ UNCHANGED <<dvars, rvars, hvars>>

\* The test of the wait loop.
WaitLoopGoesOn == running > 0

\* while running.load(Relaxed) > 0 { .. }; after the loop
\* automation.RemoveAllEventHandlers(), by which the host gives up its
\* references, CoUninitialize() and Ok(()).
RunWaitLoop ==
    /\ apc = "wait"
    /\ IF WaitLoopGoesOn
       THEN /\ apc' = "sleep"
            /\ UNCHANGED <<aret, acalls, hrefs, hostHolds>>
       ELSE /\ apc' = "drop"
            /\ aret' = "Ok"
            /\ acalls' = acalls \o <<<<"RemoveAllEventHandlers", "Ok">>,
                                      <<"CoUninitialize", "Ok">>>>
            /\ hrefs' = [v \in Variants |-> hrefs[v] - hostHolds[v]]
            /\ hostHolds' = [v \in Variants |-> 0]
    /\ UNCHANGED <<running, hdrops>>
    /\ UNCHANGED <<dvars, rvars, hvars>>

\* thread::sleep(Duration::from_millis(100))
RunSleep ==
    /\ apc = "sleep"
    /\ apc' = "wait"
    /\ UNCHANGED <<aret, running, acalls, hrefs, hostHolds, hdrops>>
    /\ UNCHANGED <<dvars, rvars, hvars>>

\* (mutant) the wrappers are dropped and each handler is released once more.
RunDropReleasesTwice ==
    /\ apc = "drop"
    /\ apc' = "returned"
    /\ hrefs' = [v \in Variants |-> FetchSub(FetchSub(hrefs[v]))]
    /\ hdrops' = [v \in Variants |->
                     IF ReleaseCount(hrefs[v]) = 0
                        \/ ReleaseCount(FetchSub(hrefs[v])) = 0
                     THEN hdrops[v] + 1
                     ELSE hdrops[v]]
    /\ UNCHANGED <<aret, running, acalls, hostHolds>>
    /\ UNCHANGED <<dvars, rvars, hvars>>

\* run() returns or unwinds: text_interface, prop_interface and
\* focus_interface are dropped, which releases each handler once; a handler
\* whose count reaches zero drops its Box.
RunDrop ==
    /\ apc = "drop"
    /\ apc' = "returned"
    /\ hrefs' = [v \in Variants |-> FetchSub(hrefs[v])]
    /\ hdrops' = [v \in Variants |->
                     IF ReleaseCount(hrefs[v]) = 0 THEN hdrops[v] + 1
                     ELSE hdrops[v]]
    /\ UNCHANGED <<aret, running, acalls, hostHolds>>
    /\ UNCHANGED <<dvars, rvars, hvars>>

\* The host takes another reference on a handler it has registered.
HostAddRef(v) ==
    /\ Registered(v)
    /\ hdrops[v] = 0
    /\ hrefs[v] > 0
    /\ hostHolds[v] < MaxRefs
    /\ hrefs' = [hrefs EXCEPT ![v] = FetchAdd(@)]
    /\ hostHolds' = [hostHolds EXCEPT ![v] = @ + 1]
    /\ UNCHANGED <<apc, aret, running, acalls, hdrops>>
    /\ UNCHANGED <<dvars, rvars, hvars>>

\* The host gives up a reference it holds.
HostRelease(v) ==
    /\ hostHolds[v] > 0
    /\ hrefs' = [hrefs EXCEPT ![v] = FetchSub(@)]
    /\ hostHolds' = [hostHolds EXCEPT ![v] = @ - 1]
    /\ hdrops' = [hdrops EXCEPT ![v] =
                     IF ReleaseCount(hrefs[v]) = 0 THEN @ + 1 ELSE @]
    /\ UNCHANGED <<apc, aret, running, acalls>>
    /\ UNCHANGED <<dvars, rvars, hvars>>

\* The steps of the thread that runs run().
RunStep ==
    \/ \E res \in CallResults : RunCoInitializeEx(res)
    \/ \E res \in CallResults : RunCoCreateInstance(res)
    \/ RunNewHandlers
    \/ \E res \in CallResults : RunAddFocusChangedEventHandler(res)
    \/ \E res \in CallResults : RunGetRootElement(res)
    \/ \E res \in CallResults : RunSafeArrayCreateVector(res)
    \/ \E res \in CallResults : RunSafeArrayPutElement(res)
    \/ \E res \in CallResults : RunAddPropertyChangedEventHandler(res)
    \/ \E res \in CallResults : RunSafeArrayDestroy(res)
    \/ \E res \in CallResults : RunAddAutomationEventHandler(res)
    \/ RunWaitLoop
    \/ RunSleep
    \/ RunDrop

NextApp ==
    \/ RunStep
    \/ \E v \in Variants : HostAddRef(v)
    \/ \E v \in Variants : HostRelease(v)

----------------------------------------------------------------------------
(* Specifications *)

\* The debounce channel under callers on several threads.
StartDebounce ==
    InitDebounce /\ InitRefOf("property") /\ InitHandlers /\ InitApp
SpecDebounce == StartDebounce /\ [][NextDebounce]_vars

\* The worker thread and the threads inside debounce_print are scheduled, and
\* time passes; whether and when a caller enters is left open.
WorkerStep ==
    \E c \in Chans : WorkerRecv(c) \/ WorkerRecvTimeoutOk(c) \/ WorkerTimeout(c)
CallerStep ==
    \E t \in Threads : GetOrInit(t) \/ InitClosure(t) \/ Send(t)
FairDebounce ==
    /\ SpecDebounce
    /\ WF_vars(WorkerStep)
    /\ WF_vars(CallerStep)
    /\ WF_vars(Advance)

\* One handler object under the host's IUnknown calls from several threads.
StartRef == InitDebounce /\ InitRef /\ InitHandlers /\ InitApp
SpecRef == StartRef /\ [][NextRef]_vars

\* One event raised by the host on one of its threads, through the behaviour
\* method it calls and debounce_print to the worker's println.
StartRouter ==
    InitDebounce /\ InitRefOf("property") /\ InitHandlers /\ InitApp
SpecRouter == StartRouter /\ [][NextRouter]_vars

\* Events of both kinds, on both elements and threads, one after the other
\* and overlapping, through debounce_print to the worker.
StartBurst ==
    InitDebounce /\ InitRefOf("property") /\ InitHandlers /\ InitApp
SpecBurst == StartBurst /\ [][NextBurst]_vars

\* Calls of get_text_deep one after the other on several threads, from the
\* state in which no thread holds an automation handle.
StartCache ==
    InitDebounce /\ InitRefOf("property") /\ InitHandlers /\ InitApp
SpecCache == StartCache /\ [][NextCache]_vars

\* run() from its first call on, with the host taking and giving up
\* references on the handlers it has registered.
StartApp == InitDebounce /\ InitRefOf("property") /\ InitHandlers /\ InitApp
SpecApp == StartApp /\ [][NextApp]_vars

\* The thread of run() is scheduled; what the host does is left open.
FairApp == SpecApp /\ WF_vars(RunStep)

\* One call of get_text or get_text_deep, on a thread that may hold an
\* automation handle already.
StartText ==
    InitDebounce /\ InitRefOf("property") /\ InitText /\ InitApp
SpecText == StartText /\ [][NextText]_vars

----------------------------------------------------------------------------
(* Claims about the debounce channel *)

\* The lines the worker printed, in order.
Emits ==
    LET w == SelectSeq(stdout, LAMBDA l : l.src = "worker")
    IN  [k \in 1..Len(w) |->
            [time |-> w[k].time, id |-> w[k].msg.id, text |-> w[k].msg.text]]

\* The positions in Emits of the emissions of submission `id`.
EmitsOf(id) == {k \in 1..Len(Emits) : Emits[k].id = id}

\* The time between the i-th send and the next one.
Gap(i) == subs[i + 1].time - subs[i].time

\* The i-th send ended a burst: more than DEBOUNCE_MS passed after it without
\* another send.
Quiet(i) ==
    IF i < Len(subs) THEN Gap(i) > DEBOUNCE_MS
    ELSE now > subs[i].time + DEBOUNCE_MS

C1_WitnessSingle ==
    /\ Len(subs) = 1 /\ Quiet(1) /\ Len(Emits) = 1 /\ nextId = 2

\* The times and payloads of a sequence of sends or of printed lines.
Stamps(seq) == [k \in 1..Len(seq) |-> <<seq[k].time, seq[k].text>>]

IsPrefix(a, b) == Len(a) <= Len(b) /\ a = SubSeq(b, 1, Len(a))

\* The submissions of the example: A at 0, B at 50, C at 260.
ExampleSubs == <<<<0, "A">>, <<50, "B">>, <<260, "C">>>>
ExampleEmits == <<<<250, "B">>, <<460, "C">>>>

\* The example: after A at 0, B at 50 and C at 260 the emissions are B at 250
\* and C at 460, in that order, and nothing else.
ExampleHolds ==
    Stamps(subs) = ExampleSubs =>
        /\ IsPrefix(Stamps(Emits), ExampleEmits)
        /\ now >= 260 => Len(Emits) >= 1
        /\ now > 460 => Stamps(Emits) = ExampleEmits

\* C2 as claimed: two sends at least DEBOUNCE_MS apart are emitted
\* separately, so when the later one has been emitted the earlier one has
\* been emitted too; and the example holds.
C2_AtLeastGapSeparates ==
    /\ \A i \in 1..(Len(subs) - 1) :
          (Gap(i) >= DEBOUNCE_MS /\ EmitsOf(subs[i + 1].id) # {})
              => EmitsOf(subs[i].id) # {}
    /\ ExampleHolds

\* C2 as amended: two sends more than DEBOUNCE_MS apart are emitted
\* separately: the earlier one is emitted DEBOUNCE_MS after it was sent, which
\* is before the later one is sent; and the example holds as claimed.
C2_LongerGapSeparates ==
    /\ \A i \in 1..(Len(subs) - 1) :
          Gap(i) > DEBOUNCE_MS =>
              /\ Cardinality(EmitsOf(subs[i].id)) = 1
              /\ \A k \in EmitsOf(subs[i].id) :
                    /\ Emits[k].time = subs[i].time + DEBOUNCE_MS
                    /\ \A j \in EmitsOf(subs[i + 1].id) : k < j
    /\ ExampleHolds

\* C2 witness: the example ran to its end.
C2_Witness ==
    /\ Stamps(subs) = ExampleSubs
    /\ Stamps(Emits) = ExampleEmits
    /\ now > 460

\* The worker threads spawned so far.
Workers == {c \in Chans : wpc[c] # "none"}

\* C3: whatever the number of threads in their first debounce_print, at most
\* one channel and one worker exist, the initialisation is complete exactly
\* when that one channel exists, every sender obtained and every send made
\* goes to the channel DEBOUNCE_SENDER holds, and that channel has a worker.
C3_InitExactlyOnce ==
    /\ nChan <= 1
    /\ Cardinality(Workers) <= 1
    /\ (once = "complete") <=> (nChan = 1)
    /\ \A t \in Threads :
          tpc[t] = "send" => (tsender[t] = cell /\ cell \in Workers)
    /\ \A i \in 1..Len(subs) : subs[i].chan = cell /\ subs[i].chan \in Workers

\* C3 witness: two threads are in their first call at once, one running the
\* closure and the other blocked in get_or_init.
C3_Witness ==
    \E t, u \in Threads : tpc[t] = "closure" /\ tpc[u] = "wait"

\* C3 witness: two threads that entered before the initialisation have both
\* sent.
C3_WitnessBothSent ==
    /\ now = 0
    /\ Len(subs) = 2
    /\ subs[1].thread # subs[2].thread
    /\ subs[1].id = 2

----------------------------------------------------------------------------
(* Claims about the reference counting of the handlers *)

\* Threads between the fetch_sub and the test of their release.
InRelease == {t \in Threads : rpc[t] = "release"}

\* C4: the Box is dropped at most once; it is dropped only when the net count
\* (1 + add_refs - releases) is zero, and it has been dropped whenever the net
\* count is zero and no release call is still running; the call that drops it
\* is the release that gave up the last reference.
C4_DestroyedIffNetZero ==
    /\ destroyCount <= 1
    /\ (destroyCount = 1) <=> ~alive
    /\ ~alive => NetCount = 0
    /\ (NetCount = 0 /\ InRelease = {}) => ~alive
    /\ NetCount > 0 => zeroedBy = {}
    /\ destroyedBy \subseteq zeroedBy
    /\ (NetCount = 0 /\ alive) => (zeroedBy \subseteq InRelease /\ zeroedBy # {})

\* C4 witness: after add_refs and releases the object was destroyed by the
\* release of a thread other than the creator.
C4_Witness ==
    /\ ~alive
    /\ destroyedBy = {"t2"}
    /\ lastCall.op = "release" /\ lastCall.ret = 0

\* C5: under any interleaving no update of the count is lost (the count is
\* the number of references held), at most one release call computes the
\* count 0, exactly one once the last reference is given up, and no call
\* touches the object after its Box was dropped.
C5_ConcurrentReleaseSafe ==
    /\ alive => ref_count = NetCount
    /\ LET zeroSeers == {t \in InRelease : rcount[t] = 0}
       IN  /\ Cardinality(zeroSeers) + destroyCount <= 1
           /\ NetCount = 0 => Cardinality(zeroSeers) + destroyCount = 1
    /\ ~uaf

\* C5 witness: two threads are inside release at once, one of them with the
\* count 0.
C5_Witness ==
    /\ InRelease = Threads
    /\ \E t \in Threads : rcount[t] = 0
    /\ alive

\* The behaviour interface each variant declares.
OwnIid(v) ==
    CASE v = "focus" -> IID_Focus
      [] v = "property" -> IID_Property
      [] v = "text" -> IID_Event

\* C6: query_interface with IUnknown or the variant's own behaviour interface
\* returns S_OK, hands out the object itself and adds exactly 1 to the count;
\* with any other identifier it returns E_NOINTERFACE, hands out null and
\* leaves the count as it was.
C6_QueryInterface ==
    lastCall.op = "query_interface" =>
        IF lastCall.iid \in {IID_IUnknown, OwnIid(variant)}
        THEN /\ lastCall.hr = S_OK
             /\ lastCall.out = "this"
             /\ lastCall.after = lastCall.before + 1
        ELSE /\ lastCall.hr = E_NOINTERFACE
             /\ lastCall.out = "null"
             /\ lastCall.after = lastCall.before

\* C6 witness: the text-changed handler was asked for the behaviour interface
\* of the property-changed handler and refused.
C6_Witness ==
    /\ variant = "text"
    /\ lastCall.op = "query_interface"
    /\ lastCall.iid = IID_Property
    /\ lastCall.hr = E_NOINTERFACE

\* C6 witness: a handler was asked for its own behaviour interface.
C6_WitnessOwn ==
    /\ variant = "property"
    /\ lastCall.op = "query_interface"
    /\ lastCall.iid = IID_Property
    /\ lastCall.before = 2 /\ ref_count = 3

\* C7: new() leaves the count at 1; add_ref returns the count it left, one
\* more than it found; release returns the count it left, one less than it
\* found.
C7_CountsReturned ==
    /\ lastCall.op = "new" => (ref_count = 1 /\ alive)
    /\ lastCall.op = "add_ref" =>
          (lastCall.ret = lastCall.before + 1 /\ lastCall.ret = lastCall.after)
    /\ lastCall.op = "release" =>
          (lastCall.ret = lastCall.before - 1 /\ lastCall.ret = lastCall.after)

\* C7 witness: add_ref on a live object with count 2 returned.
C7_Witness ==
    /\ lastCall.op = "add_ref" /\ lastCall.before = 2 /\ alive

\* C7 witness: release on a live object with count 3 returned.
C7_WitnessRelease ==
    /\ lastCall.op = "release" /\ lastCall.before = 3 /\ alive

----------------------------------------------------------------------------
(* Claims about the behaviour methods *)

\* The event fired on an element, and the host says it has the keyboard focus.
ElementHasFocus ==
    ~hev.sender_null /\ hev.elem.focus.ok /\ hev.elem.focus.val

\* The event fired on an element whose control type the host reports as one
\* of `types`.
ElementTypeIn(types) ==
    ~hev.sender_null /\ hev.elem.ctype.ok /\ hev.elem.ctype.val \in types

\* get_text_deep, where the behaviour asked it, yielded a text that is not
\* empty.
DeepTextNonEmpty ==
    hres.deep.called => (hres.deep.ok /\ ~IsEmpty(hres.deep.text))

\* The behaviour called debounce_print once, and the message it passed is the
\* one (and the only one) that is or will be sent to the channel.
SubmittedOnce ==
    /\ hres.calls = 1
    /\ Len(subs) <= 1
    /\ IF hstate = "returned"
       THEN Len(subs) = 1 /\ subs[1].msg = hres.msg
       ELSE \/ tpc[hev.thread] # "idle" /\ tmsg[hev.thread] = hres.msg /\ subs = <<>>
            \/ tpc[hev.thread] = "idle" /\ Len(subs) = 1 /\ subs[1].msg = hres.msg

\* The behaviour did not call debounce_print, and nothing was sent.
SubmittedNothing ==
    /\ hres.calls = 0
    /\ subs = <<>>
    /\ \A t \in Threads : tpc[t] = "idle"
    /\ \A c \in Chans : queue[c] = <<>>

\* The four gates of the property-changed behaviour.
PropertyGates ==
    <<hev.property_id = UIA_ValueValuePropertyId,
      ElementTypeIn({"Edit", "Group"}),
      ElementHasFocus,
      ~IsEmpty(hev.new_value) \/ (IsEmpty(hev.new_value) /\ DeepTextNonEmpty)>>

AllHold(gates) == \A k \in 1..Len(gates) : gates[k]
AllButHold(gates, j) == ~gates[j] /\ \A k \in 1..Len(gates) : k # j => gates[k]

\* C8: a property-changed event is submitted to the debounce channel, once,
\* if the changed property is the value property, the element's control type
\* is edit or group, the element has the keyboard focus and the resulting
\* text is not empty; otherwise nothing is submitted.
C8_PropertyForwardedIffGates ==
    hev.kind = "property" =>
        IF AllHold(PropertyGates) THEN SubmittedOnce ELSE SubmittedNothing

\* C8 witness: all four gates held and the message was sent to the channel.
C8_Witness ==
    /\ hev.kind = "property"
    /\ AllHold(PropertyGates)
    /\ hstate = "returned"
    /\ Len(subs) = 1
    /\ subs[1].msg.text = "property"

\* C8 witnesses: exactly one gate failed, and nothing was submitted.
C8_WitnessNotValueProperty ==
    hev.kind = "property" /\ AllButHold(PropertyGates, 1) /\ hstate = "returned"
C8_WitnessOtherControlType ==
    hev.kind = "property" /\ AllButHold(PropertyGates, 2) /\ hstate = "returned"
C8_WitnessNoFocus ==
    hev.kind = "property" /\ AllButHold(PropertyGates, 3) /\ hstate = "returned"
C8_WitnessEmptyText ==
    hev.kind = "property" /\ AllButHold(PropertyGates, 4) /\ hstate = "returned"

\* The gates of the generic automation-event behaviour.
AutomationGates ==
    <<hev.event_id = UIA_Text_TextChangedEventId,
      ElementHasFocus,
      ElementTypeIn({"Edit", "Document", "Group"}),
      DeepTextNonEmpty>>

\* C9: an automation event is submitted to the debounce channel, once, if its
\* identifier is text-changed, the element has the keyboard focus, its control
\* type is edit, document or group and get_text_deep yields a text that is
\* not empty; otherwise nothing is submitted and nothing is printed.  The
\* behaviour itself never prints.
C9_TextChangedForwardedIffGates ==
    hev.kind = "text" =>
        /\ hres.lines = <<>>
        /\ IF AllHold(AutomationGates)
           THEN SubmittedOnce /\ hres.deep.called
           ELSE SubmittedNothing /\ stdout = <<>>

\* C9 witness: a text-changed event on a focused document whose text comes
\* from a descendant was submitted and printed by the worker.
C9_Witness ==
    /\ hev.kind = "text"
    /\ AllHold(AutomationGates)
    /\ hev.elem.ctype.val = "Document"
    /\ hres.deep.text.src = "found.value"
    /\ Len(stdout) = 1
    /\ stdout[1].src = "worker"
    /\ stdout[1].msg = hres.msg

\* C9 witnesses: exactly one gate failed.
C9_WitnessOtherEvent ==
    hev.kind = "text" /\ AllButHold(AutomationGates, 1) /\ hstate = "returned"
C9_WitnessNoFocus ==
    hev.kind = "text" /\ AllButHold(AutomationGates, 2) /\ hstate = "returned"

\* The lines the focus-changed behaviour printed: the focus transition, and
\* the current content.
TransitionLines == SelectSeq(stdout, LAMBDA l : l.msg.text = "focus")
ContentLines == SelectSeq(stdout, LAMBDA l : l.msg.text = "content")

\* C10: on a focus-changed event the behaviour prints the focus transition
\* exactly if the control type is edit or group, followed by the
\* current-content line only if get_text_deep yields a text that is not
\* empty; for any other control type it prints nothing.
C10_FocusPrintsNonEmptyContent ==
    hev.kind = "focus" =>
        IF ElementTypeIn({"Edit", "Group"})
        THEN /\ Len(TransitionLines) = 1
             /\ stdout[1] = TransitionLines[1]
             /\ hres.deep.called
             /\ Len(stdout) = 1 + Len(ContentLines)
             /\ Len(ContentLines) <= 1
             /\ Len(ContentLines) = 1 =>
                   (hres.deep.ok /\ ~IsEmpty(hres.deep.text))
        ELSE stdout = <<>>

\* What the code does on a focus-changed event: as C10, but the
\* current-content line is printed whenever get_text_deep returns Ok, also
\* with an empty text.
FocusPrintsContentWheneverOk ==
    hev.kind = "focus" =>
        IF ElementTypeIn({"Edit", "Group"})
        THEN /\ Len(TransitionLines) = 1
             /\ stdout[1] = TransitionLines[1]
             /\ hres.deep.called
             /\ Len(stdout) = 1 + Len(ContentLines)
             /\ (Len(ContentLines) = 1) <=> hres.deep.ok
             /\ Len(ContentLines) = 1 => ContentLines[1].msg.body = hres.deep.text
        ELSE stdout = <<>>

----------------------------------------------------------------------------
(* Claims about the text a behaviour method settles on *)

\* What get_text_deep can return for the element of the event, on a thread
\* that holds no automation handle yet: one result for each host call that
\* can fail.
DeepResults == {GetTextDeep(hev.elem, 0, 1, hf) : hf \in HostFails}

\* The gates of the property-changed behaviour that do not depend on the
\* text.
PropertyElementGates ==
    /\ hev.property_id = UIA_ValueValuePropertyId
    /\ ElementTypeIn({"Edit", "Group"})
    /\ ElementHasFocus

\* C11: in the property-changed behaviour the text submitted is the payload's
\* value when that is not empty, and get_text_deep is then not called;
\* otherwise it is what get_text_deep returned for the element.
C11_PayloadPreferredOverDeepText ==
    (hev.kind = "property" /\ PropertyElementGates) =>
        IF ~IsEmpty(hev.new_value)
        THEN /\ ~hres.deep.called
             /\ hres.calls = 1
             /\ hres.msg.body = hev.new_value
             /\ \A k \in 1..Len(subs) : subs[k].msg.body = hev.new_value
        ELSE /\ hres.deep \in DeepResults
             /\ (hres.deep.ok /\ ~IsEmpty(hres.deep.text)) =>
                   /\ hres.calls = 1
                   /\ hres.msg.body = hres.deep.text
                   /\ \A k \in 1..Len(subs) : subs[k].msg.body = hres.deep.text

\* C11 witness: the payload was empty, and the text of a descendant was
\* submitted and sent.
C11_Witness ==
    /\ hev.kind = "property"
    /\ PropertyElementGates
    /\ IsEmpty(hev.new_value)
    /\ hres.deep.called
    /\ Len(subs) = 1
    /\ subs[1].msg.body = Str("found.text", 5)

\* C11 witness: the payload was not empty and was sent, on an element that has
\* a text of its own.
C11_WitnessPayload ==
    /\ hev.kind = "property"
    /\ ~IsEmpty(hev.new_value)
    /\ hev.elem.value = HostOk("value", 5)
    /\ Len(subs) = 1
    /\ subs[1].msg.body = hev.new_value

----------------------------------------------------------------------------
(* Claims about uia/text.rs *)

\* The host calls of a trace that name `what`.
CallsOf(trace, what) == {k \in 1..Len(trace) : trace[k][2] = what}

\* The first n characters, or MAX_TEXT_LEN of them if n is more.
AtMostMaxLen(n) == IF n > MAX_TEXT_LEN THEN MAX_TEXT_LEN ELSE n

\* The value pattern of the element yielded a value, and it is not empty.
ValueObtained(e) == e.value.ok /\ e.value.len > 0

\* C12: get_text tries the value pattern first and returns its value when
\* that is obtained and not empty, without consulting the text pattern;
\* otherwise it returns the text of the document range (possibly empty) when
\* that is obtained, and the empty string when neither is; it never returns
\* an error.
C12_GetTextValueFirst ==
    hev.kind = "get_text" =>
        LET e == hev.elem
            r == hres.deep
        IN  /\ hres.ret = "Ok"
            /\ r.trace[1] = <<"elem", "ValuePattern">>
            /\ IF ValueObtained(e)
               THEN /\ r.text = [src |-> "value", len |-> e.value.len]
                    /\ CallsOf(r.trace, "TextPattern") = {}
               ELSE IF e.text.ok
               THEN /\ r.text = Str("text", AtMostMaxLen(e.text.len))
                    /\ r.trace[2] = <<"elem", "TextPattern">>
               ELSE r.text = Empty

\* C12 witness: the value pattern yields an empty value, and the text of the
\* document range is returned.
C12_Witness ==
    /\ hev.kind = "get_text"
    /\ hev.elem.value = HostOk("value", 0)
    /\ hev.elem.text = HostOk("text", 5)
    /\ hres.deep.text = Str("text", 5)

\* C12 witness: both patterns yield a text, and the value is returned.
C12_WitnessValue ==
    /\ hev.kind = "get_text"
    /\ hev.elem.value = HostOk("value", 5)
    /\ hev.elem.text = HostOk("text", 5)
    /\ hres.deep.text = Str("value", 5)

\* What the patterns of node n hold: its value if obtained and not empty,
\* else the text of its document range if obtained, else nothing.
TextOf(n) ==
    IF n.value.ok /\ n.value.len > 0
    THEN [src |-> n.value.src, len |-> n.value.len]
    ELSE IF n.text.ok /\ n.text.len > 0
    THEN [src |-> n.text.src, len |-> AtMostMaxLen(n.text.len)]
    ELSE Empty

\* The host call that was made to fail in the call of get_text_deep.
FailedCall == hev.event_id

\* The calls of a trace that were made on `who`.
CallsOn(trace, who) == {k \in 1..Len(trace) : trace[k][1] = who}

\* C13: when get_text of the element itself yields a text that is not empty,
\* get_text_deep returns exactly that text, searches no descendant and does
\* not acquire the thread's automation handle.
C13_OwnTextNoDescent ==
    [][(hev'.kind = "get_text_deep" /\ ~IsEmpty(TextOf(hev'.elem))) =>
          /\ hres'.ret = "Ok"
          /\ hres'.deep.text = TextOf(hev'.elem)
          /\ CallsOf(hres'.deep.trace, "FindFirst") = {}
          /\ CallsOn(hres'.deep.trace, "host") = {}
          /\ CallsOn(hres'.deep.trace, "automation") = {}
          /\ CallsOn(hres'.deep.trace, "found") = {}
          /\ tlAuto' = tlAuto
          /\ nAuto' = nAuto]_vars

\* C13 witness: the element has a text of its own and a descendant with a
\* text, the thread has no handle yet and creating one would fail; the
\* element's own text is returned.
C13_Witness ==
    /\ hev.kind = "get_text_deep"
    /\ hev.elem.text = HostOk("text", 5)
    /\ hev.elem.value = HostErr
    /\ hev.elem.found.ok
    /\ hev.elem.found.value = HostOk("found.value", 5)
    /\ FailedCall = "create"
    /\ tlAuto[hev.thread] = 0
    /\ hres.ret = "Ok"
    /\ hres.deep.text = Str("text", 5)

\* C14: when get_text of the element itself yields the empty text (and no
\* host call of the search fails), get_text_deep searches once, from the
\* element, for the first descendant that has the text pattern OR the value
\* pattern, and returns get_text of that node.  The node's own descendants
\* are not searched and no second match is tried, also when the first match
\* yields the empty text.
C14_OneLevelDescent ==
    (hev.kind = "get_text_deep" /\ IsEmpty(TextOf(hev.elem))
        /\ FailedCall = "none") =>
        LET e == hev.elem
            trace == hres.deep.trace
            find == CallsOf(trace, "FindFirst")
        IN  /\ hres.ret = "Ok"
            /\ Cardinality(find) = 1
            /\ \A k \in find :
                  /\ trace[k] = <<"elem", "FindFirst">>
                  /\ k > 3
                  /\ trace[k - 3] = <<"automation", "CreatePropertyCondition(text)">>
                  /\ trace[k - 2] = <<"automation", "CreatePropertyCondition(value)">>
                  /\ trace[k - 1] = <<"automation", "CreateOrCondition">>
            /\ CallsOn(trace, "rest") = {}
            /\ hres.deep.text = IF e.found.ok THEN TextOf(e.found) ELSE Empty

\* C14 witness: no text of its own, one descendant with the value pattern
\* only, which yields "hello" (5 characters).
C14_Witness ==
    /\ hev.kind = "get_text_deep"
    /\ FailedCall = "none"
    /\ IsEmpty(TextOf(hev.elem))
    /\ hev.elem.found = [ok |-> TRUE, value |-> HostOk("found.value", 5),
                         text |-> HostErr]
    /\ ~hev.elem.rest
    /\ hres.deep.text = Str("found.value", 5)

\* C14 witness: the first match yields the empty text and the tree holds
\* further matching nodes; the empty text is returned.
C14_WitnessFirstMatchEmpty ==
    /\ hev.kind = "get_text_deep"
    /\ FailedCall = "none"
    /\ IsEmpty(TextOf(hev.elem))
    /\ hev.elem.found.ok
    /\ hev.elem.rest
    /\ hres.ret = "Ok"
    /\ IsEmpty(hres.deep.text)

\* C15: whichever host call inside get_text_deep fails (value retrieval,
\* range-text retrieval, acquiring the thread's automation handle, building
\* either condition or their OR, the descendant search), get_text_deep
\* returns Ok, with the empty text where the failing step left none.
C15_FailuresYieldEmptyText ==
    hev.kind = "get_text_deep" =>
        /\ hres.ret = "Ok"
        /\ (IsEmpty(TextOf(hev.elem)) /\ ~hev.elem.found.ok) =>
              IsEmpty(hres.deep.text)

\* What the code does when a host call fails: the patterns and FindFirst
\* failing give Ok with the text that is left (the empty text when FindFirst
\* finds nothing); CoCreateInstance, CreatePropertyCondition or
\* CreateOrCondition failing make get_text_deep return Err.
DeepErrOnlyFromHandleOrCondition ==
    hev.kind = "get_text_deep" =>
        LET trace == hres.deep.trace
            acquired == CallsOf(trace, "CoCreateInstance") # {}
            failed == \/ FailedCall = "create" /\ acquired
                      \/ FailedCall \in {"cond_text", "cond_value", "or"}
        IN  /\ hres.ret = "Err" <=> (IsEmpty(TextOf(hev.elem)) /\ failed)
            /\ (hres.ret = "Ok" /\ IsEmpty(TextOf(hev.elem))) =>
                  hres.deep.text =
                      IF hev.elem.found.ok THEN TextOf(hev.elem.found) ELSE Empty

----------------------------------------------------------------------------
(* Claims about the status the behaviour methods return *)

BehaviourKinds == {"focus", "property", "text"}

\* A query the behaviour method made on the element failed.
ControlTypeQueryFailed == ~hev.sender_null /\ ~hev.elem.ctype.ok
FocusQueryFailed ==
    /\ hev.kind \in {"property", "text"}
    /\ ~hev.sender_null
    /\ ~hev.elem.focus.ok
TextRetrievalFailed == hres.deep.called /\ ~hres.deep.ok

\* C16: each of the three behaviour methods returns S_OK on every path; when
\* a query on the element fails (control type, keyboard focus, text
\* retrieval) the event is ignored: nothing is submitted to the debounce
\* channel, and the host sees no failure status.
C16_HandlersReturnSuccess ==
    hev.kind \in BehaviourKinds =>
        /\ hres.ret = IF hstate = "returned" THEN S_OK ELSE ""
        /\ hres.ret # E_NOINTERFACE
        /\ (ControlTypeQueryFailed \/ FocusQueryFailed \/ TextRetrievalFailed) =>
              /\ SubmittedNothing
              /\ hstate = "returned"

\* C16 witness: a property-changed event with a payload on an edit control
\* whose keyboard-focus query fails: S_OK, nothing submitted.
C16_Witness ==
    /\ hev.kind = "property"
    /\ hev.property_id = UIA_ValueValuePropertyId
    /\ ElementTypeIn({"Edit"})
    /\ ~IsEmpty(hev.new_value)
    /\ FocusQueryFailed
    /\ hres.ret = S_OK
    /\ subs = <<>>

\* C16 witness: a text-changed event on a focused edit control for which
\* get_text_deep returns Err.
C16_WitnessTextRetrieval ==
    /\ hev.kind = "text"
    /\ TextRetrievalFailed
    /\ hres.ret = S_OK
    /\ subs = <<>>

\* C16 witness: a behaviour method returned S_OK after it submitted.
C16_WitnessSubmitted ==
    /\ hev.kind \in BehaviourKinds
    /\ hres.calls = 1
    /\ hres.ret = S_OK

----------------------------------------------------------------------------
(* Claims about the worker's progress *)

\* The worker of channel c is back in the outer receive with nothing pending,
\* and the line printed last is the message it received last.
EmittedLast(c) ==
    /\ wpc[c] = "recv"
    /\ queue[c] = <<>>
    /\ stdout # <<>>
    /\ stdout[Len(stdout)].src = "worker"
    /\ stdout[Len(stdout)].msg = wlast[c]

\* No submission is under way or pending, and every worker is in the outer
\* receive.
Quiescent ==
    /\ \A t \in Threads : tpc[t] = "idle"
    /\ \A c \in Chans : wpc[c] \in {"none", "recv"} /\ queue[c] = <<>>
    /\ subs # <<>> =>
          /\ stdout # <<>>
          /\ stdout[Len(stdout)].msg = subs[Len(subs)].msg

\* C17: with the worker scheduled and time passing, once submissions stop the
\* message received last is eventually printed and the worker is back in the
\* outer receive with nothing pending; a worker in the coalescing phase always
\* gets to print.
C17_QuiescenceEventuallyEmits ==
    /\ \A c \in Chans : (wpc[c] = "recv_timeout") ~> EmittedLast(c)
    /\ <>[]Quiescent

\* C17 witness: a burst of several submissions was coalesced, its last
\* message printed, and the worker is back in the outer receive.
C17_Witness ==
    /\ Len(subs) = MaxSubs
    /\ Len(stdout) = 1
    /\ EmittedLast(1)
    /\ stdout[1].msg = subs[MaxSubs].msg
    /\ Quiescent

\* The worker of channel c is running or blocked in one of its receives.
WorkerAlive(c) == wpc[c] \in {"recv", "recv_timeout"}

\* C18: the worker returns only when a receive reports the channel
\* disconnected; the sender in DEBOUNCE_SENDER is never dropped, so from the
\* initialisation on the worker is alive, every submission goes to its
\* channel, and no message is discarded because the worker is gone.
C18_WorkerOutlivesSubmissions ==
    /\ [](once = "complete" =>
            /\ cell \in Chans
            /\ senders[cell] = 1
            /\ WorkerAlive(cell)
            /\ \A c \in Chans : wpc[c] # "done")
    /\ [](\A k \in 1..Len(subs) : subs[k].chan = cell /\ once = "complete")
    /\ [][\A c \in Chans :
            (wpc'[c] = "done" /\ wpc[c] # "done") =>
                (WorkerAlive(c) /\ senders[c] = 0 /\ queue[c] = <<>>)]_vars
    /\ [][\A t \in Threads :
            (tpc[t] = "send" /\ tpc'[t] = "idle") =>
                queue'[tsender[t]] = Append(queue[tsender[t]], tmsg[t])]_vars

\* C18 witness: after a first emission the worker is alive in the outer
\* receive, and a later submission reached it and was emitted.
C18_Witness ==
    /\ Len(stdout) = 2
    /\ Len(subs) >= 2
    /\ stdout[2].msg = subs[Len(subs)].msg
    /\ WorkerAlive(cell)
    /\ senders[cell] = 1

----------------------------------------------------------------------------
(* Claims about bursts of events *)

\* The messages the worker printed, in order.
WorkerLines == SelectSeq(stdout, LAMBDA l : l.src = "worker")

\* The positions in WorkerLines of the message of the i-th send.
LinesOf(i) == {k \in 1..Len(WorkerLines) : WorkerLines[k].msg.id = subs[i].id}

\* C19: coalescing does not look at who submitted.  In an unbroken burst of
\* messages from the property-changed and the text-changed behaviour, about
\* different elements and from any threads, every message but the one the
\* worker received last is dropped, and that one is printed, once and
\* unchanged.
C19_CoalescingIgnoresSubmitter ==
    \A i \in 1..Len(subs) :
        /\ \A k \in 1..Len(WorkerLines) :
              \E j \in 1..Len(subs) : WorkerLines[k].msg = subs[j].msg
        /\ (i < Len(subs) /\ Gap(i) < DEBOUNCE_MS) => LinesOf(i) = {}
        /\ Quiet(i) =>
              /\ Cardinality(LinesOf(i)) = 1
              /\ \A k \in LinesOf(i) : WorkerLines[k].msg = subs[i].msg

\* C19 witness: a burst of a property-changed message about the edit control
\* and text-changed messages about the group and the edit control, from both
\* threads, ended with the last one printed and nothing else.
C19_Witness ==
    /\ Len(subs) = 3
    /\ subs[1].msg.text = "property"
    /\ subs[2].msg.text = "text" /\ subs[2].msg.ctype = "Group"
    /\ subs[3].msg.text = "text" /\ subs[3].msg.ctype = "Edit"
    /\ subs[1].thread # subs[2].thread
    /\ Gap(1) > 0
    /\ Quiet(3)
    /\ Len(WorkerLines) = 1
    /\ WorkerLines[1].msg = subs[3].msg

\* C19 witness: the burst ends with a property-changed message, sent by a
\* thread while the other thread's text-changed message was not yet sent.
C19_WitnessPropertyLast ==
    /\ Len(subs) >= 2
    /\ subs[Len(subs)].msg.text = "property"
    /\ subs[Len(subs)].id < subs[Len(subs) - 1].id
    /\ Quiet(Len(subs))
    /\ Len(WorkerLines) = 1
    /\ WorkerLines[1].msg = subs[Len(subs)].msg

----------------------------------------------------------------------------
(* Claims about run() *)

\* All three handlers were registered successfully.
AllRegistered == \A v \in Variants : CallReturned(AddCall(v), "Ok")

\* C20: after all three handlers were registered successfully, run()
\* eventually leaves its wait loop, calls RemoveAllEventHandlers exactly once
\* and returns.
C20_EventuallyUnregisters ==
    /\ AllRegistered ~>
          (apc = "returned" /\ Cardinality(CallsNamed("RemoveAllEventHandlers")) = 1)
    /\ [](Cardinality(CallsNamed("RemoveAllEventHandlers")) <= 1)

\* What the code does: `running` is a local that nothing else holds and
\* nothing stores to, so once the handlers are registered run() stays in its
\* wait loop for ever, and RemoveAllEventHandlers is never called.
WaitLoopNeverEnds ==
    /\ [](AllRegistered =>
            /\ apc \in {"wait", "sleep"}
            /\ running = 1
            /\ aret = "")
    /\ [](CallsNamed("RemoveAllEventHandlers") = {})
    /\ [][apc = "wait" => apc' \in {"wait", "sleep"}]_vars

\* The registration calls run() made, in order.
RegistrationOrder == <<"focus", "property", "text">>
RegistrationCalls ==
    SelectSeq(acalls, LAMBDA c : \E v \in Variants : c[1] = AddCall(v))

\* C21: the handlers are registered in the order focus-changed,
\* property-changed (with the array that holds the value property),
\* text-changed; when a registration fails no later registration is made,
\* run() does not enter the wait loop and returns the error.
C21_RegistrationOrderAndAbort ==
    /\ Len(RegistrationCalls) <= Len(RegistrationOrder)
    /\ \A k \in 1..Len(RegistrationCalls) :
          /\ RegistrationCalls[k][1] = AddCall(RegistrationOrder[k])
          /\ k < Len(RegistrationCalls) => RegistrationCalls[k][2] = "Ok"
    /\ CallsNamed(AddCall("property")) # {} =>
          PropertyArray = <<UIA_ValueValuePropertyId>>
    /\ (\E v \in Variants : CallReturned(AddCall(v), "Err")) =>
          /\ apc \in {"SafeArrayDestroy", "drop", "returned"}
          /\ apc = "SafeArrayDestroy" <=> acalls[Len(acalls)][1] = AddCall("property")
          /\ apc # "SafeArrayDestroy" => aret = "Err"
          /\ running = 0
    /\ apc \in {"wait", "sleep"} => AllRegistered

\* C21 witness: the focus handler was registered, the registration of the
\* property handler failed, and run() returned the error.
C21_Witness ==
    /\ CallReturned(AddCall("focus"), "Ok")
    /\ CallReturned(AddCall("property"), "Err")
    /\ CallsNamed(AddCall("text")) = {}
    /\ apc = "returned"
    /\ aret = "Err"

\* C21 witness: the first registration failed.
C21_WitnessFocusFails ==
    /\ CallReturned(AddCall("focus"), "Err")
    /\ Len(RegistrationCalls) = 1
    /\ apc = "returned"
    /\ aret = "Err"

----------------------------------------------------------------------------
(* Claims about the thread-local automation handle *)

\* The call that has just returned used an automation handle.
UsedAutomation(res) == CallsOn(res.deep.trace, "automation") # {}

\* C22: on each thread the automation handle is created successfully at most
\* once: once TL_AUTOMATION of a thread holds a handle, every later call on
\* that thread uses that handle and creates none, and no thread uses or holds
\* the handle of another.
C22_HandleCachedPerThread ==
    /\ [](/\ nAuto <= Cardinality(Threads)
          /\ \A t, u \in Threads :
                (t # u /\ tlAuto[t] # 0) => tlAuto[t] # tlAuto[u])
    /\ [][\A t \in Threads : tlAuto[t] # 0 => tlAuto'[t] = tlAuto[t]]_vars
    /\ [][(hstate = "none" /\ hstate' = "returned") =>
             LET t == hev'.thread
             IN  /\ \A u \in Threads \ {t} : tlAuto'[u] = tlAuto[u]
                 /\ tlAuto[t] # 0 =>
                       /\ CallsOf(hres'.deep.trace, "CoCreateInstance") = {}
                       /\ nAuto' = nAuto
                 /\ UsedAutomation(hres') =>
                       /\ hres'.deep.tl = tlAuto'[t]
                       /\ hres'.deep.tl # 0
                       /\ \A u \in Threads \ {t} : hres'.deep.tl # tlAuto[u]]_vars

\* C22 witness: both threads hold a handle, and the last call searched the
\* descendants with the handle its thread held already.
C22_Witness ==
    /\ \A t \in Threads : tlAuto[t] # 0
    /\ hstate = "returned"
    /\ UsedAutomation(hres)
    /\ hres.ret = "Ok"
    /\ CallsOf(hres.deep.trace, "CoCreateInstance") = {}
    /\ hres.deep.tl = tlAuto[hev.thread]
    /\ nAuto = Cardinality(Threads)

----------------------------------------------------------------------------
(* Claims about the handles of the host *)

\* The calls of a trace that change a reference count.
CountCalls(trace) ==
    {k \in 1..Len(trace) : trace[k][2] \in {"AddRef", "Release"}}

\* The behaviour method obtained the handle of a descendant.
FoundObtained ==
    /\ CallsOf(hres.deep.trace, "FindFirst") # {}
    /\ hev.elem.found.ok

\* A string, as opposed to a handle of the host.
IsString(x) == DOMAIN x = {"src", "len"} /\ x.len \in Nat

\* A message holds strings, and nothing else of the element.
MsgHoldsText(m) ==
    /\ DOMAIN m = {"id", "text", "ctype", "name", "body"}
    /\ IsString(m.name)
    /\ IsString(m.body)

\* C23: a behaviour method only borrows the element: it makes no call that
\* changes the element's reference count, the handle of a descendant it
\* obtained is released before it returns, and what the core keeps (the
\* queue, the worker's pending message, the messages being sent, the
\* thread-local cache) holds strings and automation handles only.
C23_ElementOnlyBorrowed ==
    hev.kind \in BehaviourKinds =>
        LET trace == hres.deep.trace
        IN  /\ CountCalls(trace) \cap CallsOn(trace, "elem") = {}
            /\ IF FoundObtained
               THEN CountCalls(trace) = {Len(trace)}
                    /\ trace[Len(trace)] = <<"found", "Release">>
               ELSE CountCalls(trace) = {} /\ CallsOn(trace, "found") = {}
            /\ \A c \in Chans :
                  /\ MsgHoldsText(wlast[c])
                  /\ \A k \in 1..Len(queue[c]) : MsgHoldsText(queue[c][k])
            /\ \A t \in Threads : MsgHoldsText(tmsg[t]) /\ tlAuto[t] \in 0..nAuto

\* C23 witness: a property-changed event without payload took its text from
\* a descendant; the method returned, the message is with the worker.
C23_Witness ==
    /\ hev.kind = "property"
    /\ hstate = "returned"
    /\ FoundObtained
    /\ hres.calls = 1
    /\ wlast[1] = hres.msg
    /\ wlast[1].body = Str("found.value", 5)

----------------------------------------------------------------------------
(* Claims about the length of the text *)

\* get_text took the text of the element from its document range.
RangePathTaken ==
    /\ hev.kind = "get_text"
    /\ ~ValueObtained(hev.elem)
    /\ hev.elem.text.ok

----------------------------------------------------------------------------
(* Claims about the property-id array *)

\* run() created the array, and how often it destroyed it.
ArrayCreated == CallReturned("SafeArrayCreateVector", "Ok")
ArrayDestroys == Cardinality(CallsNamed("SafeArrayDestroy"))

\* run() is past the property registration: it goes on to the text
\* registration, or it is returning or has returned.
PastPropertyRegistration ==
    apc \in {"AddAutomationEventHandler", "wait", "sleep", "drop", "returned"}

\* C25: the property-id array is destroyed exactly once on every path on
\* which it was created, also when filling it or registering the handler
\* fails, and before an error goes to the caller.
C25_ArrayDestroyedOnce ==
    /\ ArrayDestroys <= 1
    /\ ArrayDestroys = 1 => ArrayCreated
    /\ (ArrayCreated /\ PastPropertyRegistration) => ArrayDestroys = 1

\* What the code does: the array is destroyed once after the registration
\* call, whatever that returned; when SafeArrayPutElement fails, `?` returns
\* before SafeArrayDestroy and the array is never destroyed.
ArrayDestroyedUnlessPutFails ==
    /\ ArrayDestroys <= 1
    /\ ArrayDestroys = 1 => ArrayCreated
    /\ (ArrayCreated /\ PastPropertyRegistration) =>
          (ArrayDestroys = 1 <=> CallReturned("SafeArrayPutElement", "Ok"))
    /\ CallReturned("AddPropertyChangedEventHandler", "Err") =>
          (aret = "Err" => ArrayDestroys = 1)

----------------------------------------------------------------------------
(* Claims about what the worker may emit *)

\* The sends made on channel c, in order, and those of them the worker has
\* taken from the channel.
SentOn(c) == SelectSeq(subs, LAMBDA s : s.chan = c)
ReceivedOn(c) == SubSeq(SentOn(c), 1, Len(SentOn(c)) - Len(queue[c]))

\* The lines a step adds to stdout.
NewLines == SubSeq(stdout', Len(stdout) + 1, Len(stdout'))

\* Every emitted message is the payload of an earlier submission, no
\* submission is emitted twice, and there are no more emissions than
\* submissions.
EmitsAreSubmissions ==
    /\ \A k \in 1..Len(Emits) :
          \E i \in 1..Len(subs) :
              /\ subs[i].id = Emits[k].id
              /\ subs[i].text = Emits[k].text
              /\ subs[i].time < Emits[k].time
    /\ \A i \in 1..Len(subs) : Cardinality(EmitsOf(subs[i].id)) <= 1
    /\ Len(Emits) <= Len(subs)

\* A step that emits adds one line, and its message is the last one the
\* worker of some channel took from the channel.
EmitsLastReceived ==
    Len(stdout') > Len(stdout) =>
        /\ Len(NewLines) = 1
        /\ \E c \in Workers :
              /\ ReceivedOn(c) # <<>>
              /\ NewLines[1].msg = ReceivedOn(c)[Len(ReceivedOn(c))].msg

\* C26: each emitted message is the payload of a submission made earlier,
\* each submission is emitted at most once, there are never more emissions
\* than submissions, and at the moment of an emission the message emitted is
\* the last one the worker received.
C26_EmitsOnlyLastReceived ==
    /\ []EmitsAreSubmissions
    /\ [][EmitsLastReceived]_vars

\* C26 witness: three submissions, two of them coalesced, and two emissions.
C26_Witness ==
    /\ Len(subs) = 3
    /\ Len(Emits) = 2
    /\ Emits[1].id = subs[2].id
    /\ Emits[2].id = subs[3].id
    /\ Gap(1) < DEBOUNCE_MS

----------------------------------------------------------------------------
(* Claims about the length of the coalescing phase *)

\* Every send so far came less than DEBOUNCE_MS after the one before it, and
\* less than DEBOUNCE_MS have passed since the last one: the burst goes on.
BurstGoesOn ==
    /\ subs # <<>>
    /\ \A i \in 1..(Len(subs) - 1) : Gap(i) < DEBOUNCE_MS
    /\ now < subs[Len(subs)].time + DEBOUNCE_MS

\* How long the burst has lasted.
BurstLength == now - subs[1].time

\* C27: the coalescing phase has no maximum wait: while sends keep arriving
\* less than DEBOUNCE_MS apart nothing is emitted, and a worker that has
\* received a message of the burst is still in the coalescing phase, however
\* long the burst has lasted.
C27_BurstHasNoMaximumWait ==
    BurstGoesOn =>
        /\ Emits = <<>>
        /\ \A c \in Workers :
              /\ wpc[c] \in {"recv", "recv_timeout"}
              /\ wlast[c] # NoMsg => wpc[c] = "recv_timeout"
              /\ wpc[c] = "recv_timeout" => deadline[c] > now

\* C27 witness: a burst has lasted longer than DEBOUNCE_MS, the worker has
\* received all of it, is in the coalescing phase and nothing was emitted.
C27_Witness ==
    /\ BurstGoesOn
    /\ Len(subs) = 3
    /\ BurstLength > DEBOUNCE_MS
    /\ Emits = <<>>
    /\ cell \in Workers
    /\ wpc[cell] = "recv_timeout"
    /\ queue[cell] = <<>>
    /\ wlast[cell] = subs[3].msg

----------------------------------------------------------------------------
(* Claims about the handlers run() creates *)

\* run() has created the three handlers.
HandlersCreated ==
    \/ apc = "AddFocusChangedEventHandler"
    \/ CallsNamed("AddFocusChangedEventHandler") # {}

\* The references the core holds on a handler: the initial one, from new()
\* until run() has dropped the interface wrappers.
CoreHolds ==
    IF HandlersCreated /\ apc # "returned" THEN NewRefCount ELSE 0

\* C28: the core gives up the initial reference of each handler exactly once,
\* when the wrappers are dropped: the count is always the core's reference
\* plus the host's, a handler is destroyed at most once and never while the
\* host holds a counted reference, and once run() has returned, also from an
\* aborted startup, a handler the host holds no reference to has been
\* destroyed exactly once.
C28_InitialReferenceGivenUpOnce ==
    \A v \in Variants :
        /\ hrefs[v] = CoreHolds + hostHolds[v]
        /\ hdrops[v] <= 1
        /\ hdrops[v] = 1 => (hostHolds[v] = 0 /\ apc = "returned")
        /\ (HandlersCreated /\ apc = "returned" /\ hostHolds[v] = 0)
              => hdrops[v] = 1
        /\ ~HandlersCreated => hdrops[v] = 0

\* C28 witness: the startup was aborted after the focus registration; the
\* host still holds the focus handler, which lives on, and the two handlers
\* it never retained were destroyed.
C28_Witness ==
    /\ apc = "returned"
    /\ aret = "Err"
    /\ CallReturned("AddFocusChangedEventHandler", "Ok")
    /\ hostHolds["focus"] > 0
    /\ hdrops = [v \in Variants |-> IF v = "focus" THEN 0 ELSE 1]

\* C28 witness: after an aborted startup the host gave up the references it
\* had taken, and its last release destroyed the handler.
C28_WitnessHostReleasesLast ==
    /\ apc = "returned"
    /\ aret = "Err"
    /\ CallReturned("AddFocusChangedEventHandler", "Ok")
    /\ CallsNamed("RemoveAllEventHandlers") = {}
    /\ \A v \in Variants : hostHolds[v] = 0 /\ hdrops[v] = 1 /\ hrefs[v] = 0

====
